---- MODULE Spec2Model ----
(***************************************************************************)
(* Model of the JARVIS voice pipeline: the GUI listener                    *)
(* (gui/src-tauri/src/tauri_commands/listener.rs), the console main loop   *)
(* (src-tauri/src/app.rs) and the recorder both drive                      *)
(* (src-tauri/src/audio/recorder.rs).                                      *)
(*                                                                         *)
(* Text is a sequence of one-character strings.  Cyrillic letters of the   *)
(* source are written with one ASCII letter each, one to one, so that      *)
(* every substring relation of the source strings is kept:                 *)
(*   a=a v=v g=g d=d e=e zh=j z=z i=i i-kratkoe=y k=k l=l m=m n=n o=o p=p  *)
(*   r=r s=s t=t u=u ch=c sh=w yeru=x soft-sign=q e-oborotnoe=h yu=f ya=b  *)
(* so "djarvis" is the wake word, "shr" is "ser" (sir), "estq" is "est'".  *)
(***************************************************************************)
EXTENDS Integers, Sequences, FiniteSets, TLC

----------------------------------------------------------------------------
(* Text: to_lowercase, replace, trim, split_whitespace, contains *)

UpperCase == <<"A","B","C","D","E","F","G","H","I","J","K","L","M",
               "N","O","P","Q","R","S","T","U","V","W","X","Y","Z">>

LowerCase == <<"a","b","c","d","e","f","g","h","i","j","k","l","m",
               "n","o","p","q","r","s","t","u","v","w","x","y","z">>

to_lowercase_char(c) ==
    IF \E i \in 1..Len(UpperCase) : UpperCase[i] = c
    THEN LowerCase[CHOOSE i \in 1..Len(UpperCase) : UpperCase[i] = c]
    ELSE c

to_lowercase(s) == [i \in 1..Len(s) |-> to_lowercase_char(s[i])]

\* p occurs in s at position i
occurs_at(s, p, i) ==
    /\ i + Len(p) - 1 <= Len(s)
    /\ \A k \in 1..Len(p) : s[i + k - 1] = p[k]

contains(s, p) == \E i \in 1..(Len(s) + 1) : occurs_at(s, p, i)

RECURSIVE replace_from(_, _, _)
replace_from(s, p, i) ==
    IF i > Len(s) THEN <<>>
    ELSE IF occurs_at(s, p, i) THEN replace_from(s, p, i + Len(p))
    ELSE <<s[i]>> \o replace_from(s, p, i + 1)

\* str::replacen(p, "", 1): the first occurrence only
replace_first(s, p) ==
    IF p = <<>> \/ ~contains(s, p) THEN s
    ELSE LET i == CHOOSE i \in 1..Len(s) :
                     /\ occurs_at(s, p, i)
                     /\ \A j \in 1..(i - 1) : ~occurs_at(s, p, j)
         IN  SubSeq(s, 1, i - 1) \o SubSeq(s, i + Len(p), Len(s))

\* str::replace(p, ""): every non-overlapping occurrence, left to right
replace(s, p) == IF p = <<>> THEN s ELSE replace_from(s, p, 1)

is_whitespace(c) == c = " "

RECURSIVE trim_start(_)
trim_start(s) ==
    IF s # <<>> /\ is_whitespace(Head(s)) THEN trim_start(Tail(s)) ELSE s

RECURSIVE trim_end(_)
trim_end(s) ==
    IF s # <<>> /\ is_whitespace(s[Len(s)])
    THEN trim_end(SubSeq(s, 1, Len(s) - 1)) ELSE s

trim(s) == trim_end(trim_start(s))

RECURSIVE split_from(_, _, _)
split_from(s, i, word) ==
    IF i > Len(s) THEN (IF word = <<>> THEN <<>> ELSE <<word>>)
    ELSE IF is_whitespace(s[i])
         THEN (IF word = <<>> THEN <<>> ELSE <<word>>) \o split_from(s, i + 1, <<>>)
         ELSE split_from(s, i + 1, Append(word, s[i]))

split_whitespace(s) == split_from(s, 1, <<>>)

----------------------------------------------------------------------------
(* config.rs *)

ASSISTANT_PHRASES_TBR ==
   << <<"d","j","a","r","v","i","s">>,
      <<"s","h","r">>,
      <<"s","l","u","w","a","f"," ","s","h","r">>,
      <<"v","s","e","g","d","a"," ","k"," ","u","s","l","u","g","a","m">>,
      <<"p","r","o","i","z","n","e","s","i">>,
      <<"o","t","v","e","t","q">>,
      <<"p","o","k","a","j","i">>,
      <<"s","k","a","j","i">>,
      <<"d","a","v","a","y">>,
      <<"d","a"," ","s","h","r">>,
      <<"k"," ","v","a","w","i","m"," ","u","s","l","u","g","a","m"," ","s","h","r">>,
      <<"v","s","e","g","d","a"," ","k"," ","v","a","w","i","m"," ","u","s","l","u","g","a","m"," ","s","h","r">>,
      <<"z","a","p","r","o","s"," ","v","x","p","o","l","n","e","n"," ","s","h","r">>,
      <<"v","x","p","o","l","n","e","n"," ","s","h","r">>,
      <<"e","s","t","q">>,
      <<"z","a","g","r","u","j","a","f"," ","s","h","r">>,
      <<"o","c","e","n","q"," ","t","o","n","k","o","e"," ","z","a","m","e","c","a","n","i","e"," ","s","h","r">> >>

VOSK_FETCH_PHRASE == <<"d","j","a","r","v","i","s">>

VOSK_MIN_RATIO == 70

CMD_RATIO_THRESHOLD == 65

\* seconds
CMS_WAIT_DELAY == 15

\* RUSPOTTER_MIN_SCORE = 0.62, in hundredths
RUSPOTTER_MIN_SCORE == 62

DEFAULT_WAKE_WORD_ENGINE == "rustpotter"

----------------------------------------------------------------------------
(* Text normalizer *)

RECURSIVE remove_phrases(_, _, _)
remove_phrases(text, phrases, i) ==
    IF i > Len(phrases) THEN text
    ELSE remove_phrases(replace(text, phrases[i]), phrases, i + 1)

\* listener.rs filter_recognized_text
filter_recognized_text(text) ==
    trim(remove_phrases(to_lowercase(text), ASSISTANT_PHRASES_TBR, 1))

\* app.rs filter_recognized_voice
filter_recognized_voice(voice) ==
    trim(remove_phrases(to_lowercase(voice), ASSISTANT_PHRASES_TBR, 1))

----------------------------------------------------------------------------
(* Command table and matcher.  commands::fetch_command is not part of the  *)
(* sources at hand; it follows section 4.5 of the specification.           *)

\* an entry: trigger phrases, optional ratio threshold ({} when absent),
\* chaining flag
COMMANDS ==
   << [ phrases   |-> << <<"v","k","l","f","c","i"," ","m","u","z","x","k","u">> >>,
        threshold |-> {65},
        chaining  |-> FALSE ],
      [ phrases   |-> << <<"v","r","e","m","b">>, <<"c","a","s">> >>,
        threshold |-> {},
        chaining  |-> TRUE ] >>

\* how many words of the sequence are contained in the phrase
RECURSIVE words_contained(_, _)
words_contained(words, phrase) ==
    IF words = <<>> THEN 0
    ELSE (IF contains(phrase, Head(words)) THEN 1 ELSE 0)
         + words_contained(Tail(words), phrase)

\* token-overlap percentage, 0..100
token_ratio(text, phrase) ==
    LET words == split_whitespace(text)
    IN  IF words = <<>> THEN 0
        ELSE (words_contained(words, phrase) * 100) \div Len(words)

entry_threshold(entry) ==
    IF entry.threshold = {} THEN CMD_RATIO_THRESHOLD
    ELSE CHOOSE x \in entry.threshold : TRUE

entry_matches(text, entry) ==
    \E k \in 1..Len(entry.phrases) :
        token_ratio(text, entry.phrases[k]) >= entry_threshold(entry)

\* a best-match lookup: the matching entry with the highest ratio
fetch_command_best(text, commands) ==
    LET best(i) == CHOOSE r \in 0..100 :
                       /\ \E k \in 1..Len(commands[i].phrases) :
                            token_ratio(text, commands[i].phrases[k]) = r
                       /\ \A k \in 1..Len(commands[i].phrases) :
                            token_ratio(text, commands[i].phrases[k]) <= r
    IN  IF \E i \in 1..Len(commands) : entry_matches(text, commands[i])
        THEN CHOOSE i \in 1..Len(commands) :
                /\ entry_matches(text, commands[i])
                /\ \A j \in 1..Len(commands) :
                      entry_matches(text, commands[j])
                      => \/ best(j) < best(i)
                         \/ best(j) = best(i) /\ i <= j
        ELSE 0

\* index of the first entry, in table order, that matches; 0 when none does
fetch_command(text, commands) ==
    IF \E i \in 1..Len(commands) : entry_matches(text, commands[i])
    THEN CHOOSE i \in 1..Len(commands) :
            /\ entry_matches(text, commands[i])
            /\ \A j \in 1..(i - 1) : ~entry_matches(text, commands[j])
    ELSE 0

----------------------------------------------------------------------------
(* Inputs *)

\* what the speech recognizer can return for a frame
RecognizedTexts ==
    { <<>>,
      <<" ">>,
      <<"D","j","a","r","v","i","s">>,
      <<"D","j","a","r","v","i","s"," ","s","h","r">>,
      <<"w","u","m">>,
      <<"v","r","e","m","b">>,
      <<"D","j","a","r","v","i","s"," ","v","k","l","f","c","i"," ","m","u","z","x","k","u"," ","s","h","r">> }

RecognizeResults ==
    { [kind |-> "err"], [kind |-> "none"] }
        \cup { [kind |-> "some", text |-> t] : t \in RecognizedTexts }

\* Rustpotter detection scores, in hundredths; -1 is "no detection"
DetectionScores == { -1, 50, 62, 80 }

\* what the DB holds under "selected_wake_word_engine"
EngineSettings == { "rustpotter", "vosk", "picovoice", "unset" }

----------------------------------------------------------------------------
(* Threads *)

\* threads that invoke start_listening (the async command pool); the one
\* whose call succeeds runs the worker loop on that thread
Starters == { "s1", "s2" }

\* threads that invoke stop_listening
Stoppers == { "u1" }

\* the console application's main thread (app.rs)
AppThread == "app"

\* threads that call the recorder's functions directly, in any order
Clients == { "c1", "c2" }

Threads == Starters \cup Stoppers \cup { AppThread } \cup Clients

Workers == Starters \cup { AppThread }

\* a thread between two calls
Returned == { "idle", "ret_ok", "ret_err", "ret_already" }

VARIABLES
    pc,                         \* where each thread is
    LISTENING,                  \* listener.rs:26
    STOP_LISTENING,             \* listener.rs:27
    TAURI_APP_HANDLE,           \* listener.rs:28, TRUE when set
    RUSTPOTTER,                 \* listener.rs:30, TRUE when set
    PORCUPINE,                  \* listener.rs:29, TRUE when set
    selected_wake_word_engine,  \* DB setting read by get_wake_word_engine
    RECORDER_TYPE,              \* recorder.rs:13, TRUE when set
    FRAME_LENGTH,               \* recorder.rs:14, TRUE when set
    IS_INITIALIZED,             \* recorder.rs:15
    IS_RECORDING,               \* recorder.rs:16
    micRecording,               \* the capture device itself is started
    loopResult,                 \* recording_loop's result, kept over the final stop
    frameOutcome,               \* how the frame just recognized was classified
    matched,                    \* index in COMMANDS of the command matched, 0 if none
    execResult,                 \* what the command execution just ended returned,
                                \* until the worker is through its next loop head
    expired,                    \* start_time.elapsed() > CMS_WAIT_DELAY (listener.rs)
    SHUTDOWN_REQUESTED,         \* main.rs:56
    now,                        \* the clock, seconds
    start_time,                 \* app.rs:76
    engine,                     \* start_listening's local (listener.rs:106), "none"
                                \* outside a call
    lastInit,                   \* what the back-end initializer just run met
    lastRead,                   \* what the last direct read_microphone call returned
    readsAfterShutdown,         \* frame reads of main_loop made with the shutdown
                                \* flag already set
    greeted,                    \* the UI got a "greet" event and no "waiting"
                                \* event since (listener.rs:410, 469)
    voice,                      \* the text the recognizer returned (app.rs:104)
    filtered_voice,             \* what the normalizer made of it: <<>> before it
                                \* ran, <<text>> after
    fetched,                    \* what the command lookup returned: -1 before it
                                \* ran, 0 for None, else the entry's index
    COMMANDS_LIST,              \* app.rs COMMANDS_LIST, the command table loaded
    detection,                  \* what vosk_callback made of the last partial
                                \* transcription: "idle" before any
    TTS_MANAGER,                \* tts.rs:52: "unset", or the engine of the manager
    manager,                    \* who holds the TtsManager mutex, "none" when free
    is_speaking,                \* tts.rs:48
    overlapped,                 \* the speak calls made while an utterance was active
    said,                       \* the callers whose texts were spoken, in order
    devices,                    \* audio_monitor.rs:36, the snapshot: id -> attributes
    callbacks,                  \* audio_monitor.rs:37, the observers registered
    lastScan,                   \* the last scan: the snapshot it found, the device
                                \* set it read and the events it delivered
    is_running,                 \* audio_monitor.rs:38
    pollers,                    \* the polling threads start() spawned that have
                                \* not left their loop
    observers,                  \* the calls into the monitor that the registered
                                \* callbacks make when they are invoked
    locks,                      \* the monitor's mutexes: "free", "held" by a scan
                                \* that never returns, or "poisoned"
    CURRENT_SETTINGS,           \* db.rs:17: <<>> while unset, else << the Settings >>
    settings_lock,              \* the mutex of CURRENT_SETTINGS: "free", the
                                \* thread that holds it, or "poisoned"
    settings_file               \* the settings file: <<>>, or << the Settings in it >>

flagVars == << LISTENING, STOP_LISTENING >>

cellVars == << TAURI_APP_HANDLE, RUSTPOTTER, PORCUPINE, selected_wake_word_engine >>

recVars == << RECORDER_TYPE, FRAME_LENGTH, IS_INITIALIZED, IS_RECORDING, micRecording >>

sessVars == << loopResult, frameOutcome, matched, execResult, expired >>

appVars == << SHUTDOWN_REQUESTED, now, start_time >>

textVars == << voice, filtered_voice, fetched, COMMANDS_LIST, detection >>

ttsVars == << TTS_MANAGER, manager, is_speaking, overlapped, said >>

runVars == << is_running, pollers, observers, locks >>

monVars == << devices, callbacks, lastScan, runVars >>

dbVars == << CURRENT_SETTINGS, settings_lock, settings_file >>

callVars == << engine, lastInit, lastRead, readsAfterShutdown, textVars, ttsVars, monVars,
              greeted, dbVars >>

\* the state of the listener, the console loop and the recorder
progVars == << flagVars, cellVars, recVars, sessVars, appVars, engine, lastInit,
              lastRead, readsAfterShutdown, greeted, dbVars >>

vars == << pc, flagVars, cellVars, recVars, sessVars, appVars, callVars >>

Goto(t, label) == pc' = [pc EXCEPT ![t] = label]

\* no device scan has run
NoScan == [ outcome |-> "none" ]

\* no back-end initializer has run, or its caller has moved on
NoInit == [ outcome |-> "none", loaded |-> 0 ]

----------------------------------------------------------------------------
(* recorder.rs.  Every load and store of an atomic or cell is one step;    *)
(* pvrecorder's calls answer Ok or Err as the device decides.              *)

\* where a thread continues when recorder::init returns
after_recorder_init(t, ok) ==
    IF t \in Starters
    THEN (IF ok THEN "rst_check" ELSE "ret_err")    \* listener.rs:262
    ELSE IF t \in Clients
    THEN (IF ok THEN "ret_ok" ELSE "ret_err")
    ELSE (IF ok THEN "li_init" ELSE "ret_err")      \* main.rs:162

\* where a thread continues when recorder::start_recording returns
after_recorder_start(t, ok) ==
    IF t \in Starters
    THEN (IF ok THEN "sl_listen" ELSE "ret_err")    \* listener.rs:263
    ELSE IF t \in Clients
    THEN (IF ok THEN "ret_ok" ELSE "ret_err")
    ELSE (IF ok THEN "wl_check" ELSE "ret_err")     \* app.rs:28

\* where a thread continues when recorder::stop_recording returns:
\* listener.rs stop_recording stores the flags next, or returns the error
after_recorder_stop(t, ok) ==
    IF t \in Clients
    THEN (IF ok THEN "ret_ok" ELSE "ret_err")
    ELSE (IF ok THEN "sr_listening" ELSE "sr_failed")

\* an init that initializes again whatever IS_INITIALIZED holds
recorder_init_unchecked(t) ==
    /\ pc[t] = "ri_check"
    /\ Goto(t, "ri_type")
    /\ lastInit' = NoInit
    /\ UNCHANGED << flagVars, cellVars, recVars, sessVars, appVars, engine, lastRead,
                    readsAfterShutdown,
                    textVars, ttsVars, monVars, greeted, dbVars >>

\* init: the IS_INITIALIZED check
recorder_init_check(t) ==
    /\ pc[t] = "ri_check"
    /\ Goto(t, IF IS_INITIALIZED THEN after_recorder_init(t, TRUE) ELSE "ri_type")
    /\ lastInit' = NoInit
    /\ UNCHANGED << flagVars, cellVars, recVars, sessVars, appVars, engine, lastRead,
                    readsAfterShutdown,
                    textVars, ttsVars, monVars, greeted, dbVars >>

\* init: RECORDER_TYPE.set, an error when the cell is already set
recorder_init_type(t) ==
    /\ pc[t] = "ri_type"
    /\ IF RECORDER_TYPE
       THEN /\ Goto(t, after_recorder_init(t, FALSE))
            /\ UNCHANGED RECORDER_TYPE
       ELSE /\ RECORDER_TYPE' = TRUE
            /\ Goto(t, "ri_mic")
    /\ UNCHANGED << flagVars, cellVars, FRAME_LENGTH, IS_INITIALIZED, IS_RECORDING,
                    micRecording, sessVars, appVars, callVars >>

\* init_pvrecorder: FRAME_LENGTH.set, then pvrecorder::init_microphone
init_pvrecorder(t) ==
    /\ pc[t] = "ri_mic"
    /\ IF FRAME_LENGTH
       THEN /\ Goto(t, after_recorder_init(t, FALSE))
            /\ UNCHANGED FRAME_LENGTH
       ELSE /\ FRAME_LENGTH' = TRUE
            /\ \E mic_ok \in BOOLEAN :
                 Goto(t, IF mic_ok THEN "ri_store" ELSE after_recorder_init(t, FALSE))
    /\ UNCHANGED << flagVars, cellVars, RECORDER_TYPE, IS_INITIALIZED, IS_RECORDING,
                    micRecording, sessVars, appVars, callVars >>

\* init: IS_INITIALIZED.store(true)
recorder_init_store(t) ==
    /\ pc[t] = "ri_store"
    /\ IS_INITIALIZED' = TRUE
    /\ Goto(t, after_recorder_init(t, TRUE))
    /\ UNCHANGED << flagVars, cellVars, RECORDER_TYPE, FRAME_LENGTH, IS_RECORDING,
                    micRecording, sessVars, appVars, callVars >>

\* start_recording: ensure_initialized and the IS_RECORDING check
recorder_start_check(t) ==
    /\ pc[t] = "rst_check"
    /\ Goto(t, IF ~IS_INITIALIZED THEN after_recorder_start(t, FALSE)
               ELSE IF IS_RECORDING THEN after_recorder_start(t, TRUE)
               ELSE "rst_dev")
    /\ UNCHANGED << flagVars, cellVars, recVars, sessVars, appVars, callVars >>

\* start_recording: pvrecorder::start_recording
recorder_start_device(t) ==
    /\ pc[t] = "rst_dev"
    /\ \E dev_ok \in BOOLEAN :
         /\ micRecording' = (IF dev_ok THEN TRUE ELSE micRecording)
         /\ Goto(t, IF dev_ok THEN "rst_store" ELSE after_recorder_start(t, FALSE))
    /\ UNCHANGED << flagVars, cellVars, RECORDER_TYPE, FRAME_LENGTH, IS_INITIALIZED,
                    IS_RECORDING, sessVars, appVars, callVars >>

\* start_recording: IS_RECORDING.store(true)
recorder_start_store(t) ==
    /\ pc[t] = "rst_store"
    /\ IS_RECORDING' = TRUE
    /\ Goto(t, after_recorder_start(t, TRUE))
    /\ UNCHANGED << flagVars, cellVars, RECORDER_TYPE, FRAME_LENGTH, IS_INITIALIZED,
                    micRecording, sessVars, appVars, callVars >>

\* stop_recording: ensure_initialized and the IS_RECORDING check
recorder_stop_check(t) ==
    /\ pc[t] = "rs_check"
    /\ Goto(t, IF ~IS_INITIALIZED THEN after_recorder_stop(t, FALSE)
               ELSE IF ~IS_RECORDING THEN after_recorder_stop(t, TRUE)
               ELSE "rs_dev")
    /\ UNCHANGED << flagVars, cellVars, recVars, sessVars, appVars, callVars >>

\* stop_recording: pvrecorder::stop_recording
recorder_stop_device(t) ==
    /\ pc[t] = "rs_dev"
    /\ \E dev_ok \in BOOLEAN :
         /\ micRecording' = (IF dev_ok THEN FALSE ELSE micRecording)
         /\ Goto(t, IF dev_ok THEN "rs_store" ELSE after_recorder_stop(t, FALSE))
    /\ UNCHANGED << flagVars, cellVars, RECORDER_TYPE, FRAME_LENGTH, IS_INITIALIZED,
                    IS_RECORDING, sessVars, appVars, callVars >>

\* stop_recording: IS_RECORDING.store(false)
recorder_stop_store(t) ==
    /\ pc[t] = "rs_store"
    /\ IS_RECORDING' = FALSE
    /\ Goto(t, after_recorder_stop(t, TRUE))
    /\ UNCHANGED << flagVars, cellVars, RECORDER_TYPE, FRAME_LENGTH, IS_INITIALIZED,
                    micRecording, sessVars, appVars, callVars >>

\* a read_microphone that goes to the device without the IS_RECORDING check
read_microphone_outcomes_unchecked ==
    IF ~IS_INITIALIZED THEN { "NotInitialized" }
    ELSE IF ~RECORDER_TYPE THEN { "TypeNotSet" }
    ELSE IF micRecording THEN { "Ok", "ReadError" } ELSE { "ReadError" }

\* read_microphone: ensure_initialized, the IS_RECORDING check, the recorder
\* type, then pvrecorder's read, which fails on a stopped device and may fail
\* on a running one
read_microphone_outcomes ==
    IF ~IS_INITIALIZED THEN { "NotInitialized" }
    ELSE IF ~IS_RECORDING THEN { "NotStarted" }
    ELSE IF ~RECORDER_TYPE THEN { "TypeNotSet" }
    ELSE IF micRecording THEN { "Ok", "ReadError" } ELSE { "ReadError" }

\* the RecorderError variant read_microphone returns with each outcome
error_variant(outcome) ==
    CASE outcome = "NotInitialized" -> "InitializationFailed"
      [] outcome = "TypeNotSet"     -> "InitializationFailed"
      [] outcome = "NotStarted"     -> "RecordingFailed"
      [] outcome = "ReadError"      -> "RecordingFailed"
      [] outcome = "Ok"             -> "none"

\* read_microphone as the loops see it: Ok (TRUE) or Err
read_microphone_results == { outcome = "Ok" : outcome \in read_microphone_outcomes }

\* a direct call of init, start_recording, stop_recording or read_microphone
recorder_call(t, label) ==
    /\ t \in Clients
    /\ pc[t] \in Returned
    /\ Goto(t, label)
    /\ UNCHANGED << flagVars, cellVars, recVars, sessVars, appVars, callVars >>

\* read_microphone, called directly
read_microphone(t) ==
    /\ pc[t] = "rd_call"
    /\ \E outcome \in read_microphone_outcomes :
         /\ lastRead' = outcome
         /\ Goto(t, IF outcome = "Ok" THEN "ret_ok" ELSE "ret_err")
    /\ UNCHANGED << flagVars, cellVars, recVars, sessVars, appVars, engine, lastInit,
                    readsAfterShutdown,
                    textVars, ttsVars, monVars, greeted, dbVars >>

----------------------------------------------------------------------------
(* listener.rs: start_listening and the engine initializers *)

is_listening == LISTENING

\* get_wake_word_engine: the stored setting, else the default
get_wake_word_engine ==
    IF selected_wake_word_engine \in { "rustpotter", "vosk", "picovoice" }
    THEN selected_wake_word_engine
    ELSE DEFAULT_WAKE_WORD_ENGINE

\* the wake-word files rustpotter_init tries to load
NumWakeWordFiles == 5

\* what the settings can hold under "api_key__picovoice"
ApiKeys == { "missing", "blank", "present" }

\* what an initializer met: its outcome and, for Rustpotter, how many
\* wake-word files loaded
InitResult(outcome, loaded) == [ outcome |-> outcome, loaded |-> loaded ]

\* rustpotter_init up to start_recording: the instance is created, the files
\* are tried one by one, none loaded is an error, and the instance is stored
\* in the RUSTPOTTER cell, which fails when the cell is set
rustpotter_init_result(created, loaded_files) ==
    IF ~created THEN InitResult("create_failed", 0)
    ELSE IF loaded_files = 0 THEN InitResult("no_files", 0)
    ELSE IF RUSTPOTTER THEN InitResult("store_failed", loaded_files)
    ELSE InitResult("ok", loaded_files)

rustpotter_init_results ==
    { rustpotter_init_result(created, loaded_files) :
        created \in BOOLEAN, loaded_files \in 0..NumWakeWordFiles }

\* vosk_init: the model path exists
vosk_init_results ==
    { InitResult(IF model_exists THEN "ok" ELSE "no_model", 0) :
        model_exists \in BOOLEAN }

\* picovoice_init up to start_recording
picovoice_init_result(key, keyword_exists, built) ==
    IF key = "missing" THEN InitResult("key_missing", 0)
    ELSE IF key = "blank" THEN InitResult("key_blank", 0)
    ELSE IF ~keyword_exists THEN InitResult("no_keyword", 0)
    ELSE IF ~built THEN InitResult("rejected", 0)
    ELSE IF PORCUPINE THEN InitResult("store_failed", 0)
    ELSE InitResult("ok", 0)

picovoice_init_results ==
    { picovoice_init_result(key, keyword_exists, built) :
        key \in ApiKeys, keyword_exists \in BOOLEAN, built \in BOOLEAN }

engine_init_results(selected) ==
    CASE selected = "rustpotter" -> rustpotter_init_results
      [] selected = "vosk"       -> vosk_init_results
      [] selected = "picovoice"  -> picovoice_init_results

\* a start_listening without the is_listening() check
start_listening_unguarded(t) ==
    /\ t \in Starters
    /\ pc[t] \in Returned
    /\ Goto(t, "sl_handle_get")
    /\ engine' = [engine EXCEPT ![t] = "none"]
    /\ UNCHANGED << flagVars, cellVars, recVars, sessVars, appVars, lastInit, lastRead,
                    readsAfterShutdown,
                    textVars, ttsVars, monVars, greeted, dbVars >>

\* start_listening: the call and its is_listening() check
start_listening(t) ==
    /\ t \in Starters
    /\ pc[t] \in Returned
    /\ Goto(t, IF is_listening THEN "ret_already" ELSE "sl_handle_get")
    /\ engine' = [engine EXCEPT ![t] = "none"]
    /\ UNCHANGED << flagVars, cellVars, recVars, sessVars, appVars, lastInit, lastRead,
                    readsAfterShutdown,
                    textVars, ttsVars, monVars, greeted, dbVars >>

\* start_listening: TAURI_APP_HANDLE.get().is_none()
app_handle_get(t) ==
    /\ pc[t] = "sl_handle_get"
    /\ Goto(t, IF TAURI_APP_HANDLE THEN "sl_engine" ELSE "sl_handle_set")
    /\ UNCHANGED << flagVars, cellVars, recVars, sessVars, appVars, callVars >>

\* start_listening: TAURI_APP_HANDLE.set, an error when already set
app_handle_set(t) ==
    /\ pc[t] = "sl_handle_set"
    /\ IF TAURI_APP_HANDLE
       THEN /\ Goto(t, "ret_err")
            /\ UNCHANGED TAURI_APP_HANDLE
       ELSE /\ TAURI_APP_HANDLE' = TRUE
            /\ Goto(t, "sl_engine")
    /\ UNCHANGED << flagVars, RUSTPOTTER, PORCUPINE, selected_wake_word_engine,
                    recVars, sessVars, appVars, callVars >>

\* a start_listening that goes on to start_recording whatever the
\* initializer returned
engine_init_continues(t) ==
    /\ pc[t] = "sl_engine"
    /\ LET selected == get_wake_word_engine
       IN  \E r \in engine_init_results(selected) :
             /\ engine' = [engine EXCEPT ![t] = selected]
             /\ lastInit' = r
             /\ RUSTPOTTER' = (RUSTPOTTER \/ (r.outcome = "ok" /\ selected = "rustpotter"))
             /\ PORCUPINE' = (PORCUPINE \/ (r.outcome = "ok" /\ selected = "picovoice"))
             /\ Goto(t, "ri_check")
    /\ UNCHANGED << flagVars, TAURI_APP_HANDLE, selected_wake_word_engine,
                    recVars, sessVars, appVars, lastRead, readsAfterShutdown,
                    textVars, ttsVars, monVars, greeted, dbVars >>

\* start_listening: the engine is read and its initializer run; on success
\* the initializer goes on to start_recording
engine_init(t) ==
    /\ pc[t] = "sl_engine"
    /\ LET selected == get_wake_word_engine
       IN  \E r \in engine_init_results(selected) :
             /\ engine' = [engine EXCEPT ![t] = selected]
             /\ lastInit' = r
             /\ RUSTPOTTER' = (RUSTPOTTER \/ (r.outcome = "ok" /\ selected = "rustpotter"))
             /\ PORCUPINE' = (PORCUPINE \/ (r.outcome = "ok" /\ selected = "picovoice"))
             /\ Goto(t, IF r.outcome = "ok" THEN "ri_check" ELSE "sl_failed")
    /\ UNCHANGED << flagVars, TAURI_APP_HANDLE, selected_wake_word_engine,
                    recVars, sessVars, appVars, lastRead, readsAfterShutdown,
                    textVars, ttsVars, monVars, greeted, dbVars >>

\* start_listening: the initializer's error is returned to the caller
engine_init_failed(t) ==
    /\ pc[t] = "sl_failed"
    /\ engine' = [engine EXCEPT ![t] = "none"]
    /\ lastInit' = NoInit
    /\ Goto(t, "ret_err")
    /\ UNCHANGED << flagVars, cellVars, recVars, sessVars, appVars, lastRead,
                    readsAfterShutdown,
                    textVars, ttsVars, monVars, greeted, dbVars >>

\* start_recording: LISTENING.store(true), then the recording loop
listening_store(t) ==
    /\ pc[t] = "sl_listen"
    /\ LISTENING' = TRUE
    /\ Goto(t, "rl_check")
    /\ UNCHANGED << STOP_LISTENING, cellVars, recVars, sessVars, appVars, callVars >>

----------------------------------------------------------------------------
(* listener.rs: recording_loop and the detector callbacks *)

\* a recording_loop that returned the callback's error (data_callback(..)?)
recording_loop_propagates_callback_error == "rs_check"

\* recording_loop only warns when data_callback fails and goes on looping
recording_loop_on_callback_error == "rl_check"

\* rustpotter_callback: "error", "none" or "detected"
rustpotter_callback_results ==
    IF ~RUSTPOTTER THEN { "error" }
    ELSE { IF score > RUSPOTTER_MIN_SCORE THEN "detected" ELSE "none" :
             score \in DetectionScores }

\* the words of the text that contain the wake phrase, after lowercasing
RECURSIVE phrase_words(_)
phrase_words(words) ==
    IF words = <<>> THEN 0
    ELSE (IF contains(to_lowercase(Head(words)), VOSK_FETCH_PHRASE) THEN 1 ELSE 0)
         + phrase_words(Tail(words))

\* a callback that signals a detection as soon as one word has the phrase
vosk_callback_result_any_word(r) ==
    IF r.kind = "err" THEN "error"
    ELSE LET recognized == IF r.kind = "some" THEN r.text ELSE <<>>
             words == split_whitespace(recognized)
         IN  IF trim(recognized) = <<>> THEN "none"
             ELSE IF phrase_words(words) > 0 THEN "detected" ELSE "none"

\* vosk_callback on one partial recognition result
vosk_callback_result(r) ==
    IF r.kind = "err" THEN "error"
    ELSE LET recognized == IF r.kind = "some" THEN r.text ELSE <<>>
             words == split_whitespace(recognized)
         IN  IF trim(recognized) = <<>> THEN "none"
             ELSE IF phrase_words(words) * 100 >= VOSK_MIN_RATIO * Len(words)
                  THEN "detected" ELSE "none"

vosk_callback_results == { vosk_callback_result(r) : r \in RecognizeResults }

\* porcupine_callback: a processing error, or a keyword index (-1: none)
porcupine_callback_results ==
    IF ~PORCUPINE THEN { "error" }
    ELSE { "error" } \cup
         { IF keyword_index >= 0 THEN "detected" ELSE "none" :
             keyword_index \in { -1, 0 } }

\* data_callback dispatches on the engine read from the settings
data_callback_results ==
    CASE get_wake_word_engine = "rustpotter" -> rustpotter_callback_results
      [] get_wake_word_engine = "vosk"       -> vosk_callback_results
      [] get_wake_word_engine = "picovoice"  -> porcupine_callback_results

\* recording_loop: the STOP_LISTENING check at the head of the loop
recording_loop_check(t) ==
    /\ pc[t] = "rl_check"
    /\ IF STOP_LISTENING
       THEN /\ loopResult' = [loopResult EXCEPT ![t] = "ok"]
            /\ Goto(t, "rs_check")
       ELSE /\ UNCHANGED loopResult
            /\ Goto(t, "rl_read")
    /\ execResult' = [execResult EXCEPT ![t] = "none"]
    /\ UNCHANGED << flagVars, cellVars, recVars, frameOutcome, matched, expired, appVars, callVars >>

\* recording_loop: read_microphone(frame_buffer)?
recording_loop_read(t) ==
    /\ pc[t] = "rl_read"
    /\ \E ok \in read_microphone_results :
         IF ok
         THEN /\ Goto(t, "rl_detect")
              /\ UNCHANGED loopResult
         ELSE /\ loopResult' = [loopResult EXCEPT ![t] = "err"]
              /\ Goto(t, "rs_check")
    /\ UNCHANGED << flagVars, cellVars, recVars, frameOutcome, matched, execResult,
                    expired, appVars, callVars >>

\* recording_loop: data_callback(frame_buffer)
recording_loop_detect(t) ==
    /\ pc[t] = "rl_detect"
    /\ \E r \in data_callback_results :
         Goto(t, CASE r = "detected" -> "kw_cb"
                   [] r = "none"     -> "rl_check"
                   [] r = "error"    -> recording_loop_on_callback_error)
    /\ UNCHANGED << flagVars, cellVars, recVars, sessVars, appVars, callVars >>

\* keyword_callback: greeting, the greet event, then voice_command_recognition,
\* whose first act is to take start_time
keyword_callback(t) ==
    /\ pc[t] = "kw_cb"
    /\ \E emit_ok \in BOOLEAN :
         /\ Goto(t, IF emit_ok THEN "vc_check" ELSE recording_loop_on_callback_error)
         /\ greeted' = (IF emit_ok /\ TAURI_APP_HANDLE THEN TRUE ELSE greeted)
    /\ expired' = [expired EXCEPT ![t] = FALSE]
    /\ UNCHANGED << flagVars, cellVars, recVars, loopResult, frameOutcome, matched,
                    execResult, appVars, engine, lastInit, lastRead, readsAfterShutdown, textVars, ttsVars,
                    monVars, dbVars >>

----------------------------------------------------------------------------
(* listener.rs: voice_command_recognition *)

\* the session is over: its start_time is dropped
session_end(t) == expired' = [expired EXCEPT ![t] = FALSE]

\* the command loop was left by its condition or a break: emit_all of the
\* "waiting" event, its result ignored
emit_waiting == greeted' = (IF TAURI_APP_HANDLE THEN FALSE ELSE greeted)

\* how voice_command_recognition classifies what vosk::recognize returned
recognized_outcome(r) ==
    IF r.kind = "err" THEN "error"
    ELSE IF r.kind = "none" THEN "none"
    ELSE IF r.text = <<>> THEN "empty"
    ELSE LET filtered == filter_recognized_text(r.text)
         IN  IF trim(filtered) = <<>> THEN "filtered_empty"
             ELSE IF fetch_command(filtered, COMMANDS) = 0 THEN "no_match"
             ELSE "match"

\* the command find_and_execute_command finds for the result, 0 if none
recognized_command(r) ==
    IF recognized_outcome(r) = "match"
    THEN fetch_command(filter_recognized_text(r.text), COMMANDS)
    ELSE 0

\* assistant_commands::execute_command: Err, or Ok(chain_continue) with the
\* entry's chaining flag
execute_command_results(cmd) ==
    { "err", IF COMMANDS[cmd].chaining THEN "chain" ELSE "done" }

\* the STOP_LISTENING check at the head of the command loop
voice_check(t) ==
    /\ pc[t] = "vc_check"
    /\ IF STOP_LISTENING
       THEN /\ Goto(t, "rl_check")
            /\ session_end(t)
            /\ emit_waiting
       ELSE /\ Goto(t, "vc_read")
            /\ UNCHANGED << expired, greeted >>
    /\ execResult' = [execResult EXCEPT ![t] = "none"]
    /\ UNCHANGED << flagVars, cellVars, recVars, loopResult, frameOutcome, matched,
                    appVars, engine, lastInit, lastRead, readsAfterShutdown, textVars, ttsVars,
                    monVars, dbVars >>

\* read_microphone(&mut frame_buffer)?
voice_read(t) ==
    /\ pc[t] = "vc_read"
    /\ \E ok \in read_microphone_results :
         IF ok
         THEN /\ Goto(t, "vc_recog")
              /\ UNCHANGED expired
         ELSE /\ Goto(t, recording_loop_on_callback_error)
              /\ session_end(t)
    /\ UNCHANGED << flagVars, cellVars, recVars, loopResult, frameOutcome, matched,
                    execResult, appVars, callVars >>

\* vosk::recognize(&frame_buffer, false), the filter and the command lookup
voice_recognize(t) ==
    /\ pc[t] = "vc_recog"
    /\ \E r \in RecognizeResults :
         /\ frameOutcome' = [frameOutcome EXCEPT ![t] = recognized_outcome(r)]
         /\ matched' = [matched EXCEPT ![t] = recognized_command(r)]
    /\ Goto(t, "vc_decide")
    /\ UNCHANGED << flagVars, cellVars, recVars, loopResult, execResult, expired,
                    appVars, callVars >>

\* a command loop that ends the session after every frame that ran no command
voice_timeout_always(t) == "rl_check"

\* where the command loop goes after a frame that ran no command: the
\* timeout check at the foot of the loop
voice_timeout_check(t) == IF expired[t] THEN "rl_check" ELSE "vc_check"

\* what the command loop does with the classified frame
voice_decide(t) ==
    /\ pc[t] = "vc_decide"
    /\ LET next == CASE frameOutcome[t] = "error" -> recording_loop_on_callback_error
                     [] frameOutcome[t] = "match" -> "vc_exec"
                     [] OTHER                     -> voice_timeout_check(t)
       IN  /\ Goto(t, next)
           /\ IF next \in { "vc_exec", "vc_check" }
              THEN UNCHANGED expired ELSE session_end(t)
           /\ IF next \in { "vc_exec", "vc_check" } \/ frameOutcome[t] = "error"
              THEN UNCHANGED greeted ELSE emit_waiting
    /\ frameOutcome' = [frameOutcome EXCEPT ![t] = "idle"]
    /\ UNCHANGED << flagVars, cellVars, recVars, loopResult, matched, execResult,
                    appVars, engine, lastInit, lastRead, readsAfterShutdown, textVars, ttsVars,
                    monVars, dbVars >>

\* where the command loop goes when execute_command has returned
voice_after_execute(res) ==
    CASE res = "chain" -> "vc_check"
      [] res = "done"  -> "rl_check"
      [] res = "err"   -> recording_loop_on_callback_error

\* find_and_execute_command: the command runs to its end, on this thread
voice_execute(t) ==
    /\ pc[t] = "vc_exec"
    /\ \E res \in execute_command_results(matched[t]) :
         /\ execResult' = [execResult EXCEPT ![t] = res]
         /\ Goto(t, voice_after_execute(res))
         /\ IF voice_after_execute(res) = "vc_check"
            THEN UNCHANGED expired ELSE session_end(t)
         /\ IF res = "done" THEN emit_waiting ELSE UNCHANGED greeted
    /\ matched' = [matched EXCEPT ![t] = 0]
    /\ UNCHANGED << flagVars, cellVars, recVars, loopResult, frameOutcome, appVars,
                    engine, lastInit, lastRead, readsAfterShutdown, textVars, ttsVars,
                    monVars, dbVars >>

\* time passes during a session until start_time.elapsed() exceeds the delay
session_expires(t) ==
    /\ t \in Starters
    /\ pc[t] \in { "vc_check", "vc_read", "vc_recog", "vc_decide", "vc_exec" }
    /\ ~expired[t]
    /\ expired' = [expired EXCEPT ![t] = TRUE]
    /\ UNCHANGED << pc, flagVars, cellVars, recVars, loopResult, frameOutcome,
                    matched, execResult, appVars, callVars >>

----------------------------------------------------------------------------
(* listener.rs: stop_recording and stop_listening *)

\* stop_recording: recorder::stop_recording failed, the error is returned
\* with the flags untouched
stop_recording_failed(t) ==
    /\ pc[t] = "sr_failed"
    /\ loopResult' = [loopResult EXCEPT ![t] = "none"]
    /\ engine' = [engine EXCEPT ![t] = "none"]
    /\ Goto(t, "ret_err")
    /\ UNCHANGED << flagVars, cellVars, recVars, frameOutcome, matched, execResult,
                    expired, appVars, lastInit, lastRead, readsAfterShutdown,
                    textVars, ttsVars, monVars, greeted, dbVars >>

\* stop_recording: LISTENING.store(false)
stop_recording_listening(t) ==
    /\ pc[t] = "sr_listening"
    /\ LISTENING' = FALSE
    /\ Goto(t, "sr_stopflag")
    /\ UNCHANGED << STOP_LISTENING, cellVars, recVars, sessVars, appVars, callVars >>

\* stop_recording: STOP_LISTENING.store(false), and the caller returns:
\* start_recording returns the loop's result, stop_listening returns Ok
stop_recording_stopflag(t) ==
    /\ pc[t] = "sr_stopflag"
    /\ STOP_LISTENING' = FALSE
    /\ Goto(t, IF t \in Starters /\ loopResult[t] = "err" THEN "ret_err" ELSE "ret_ok")
    /\ loopResult' = [loopResult EXCEPT ![t] = "none"]
    /\ engine' = [engine EXCEPT ![t] = "none"]
    /\ UNCHANGED << LISTENING, cellVars, recVars, frameOutcome, matched, execResult,
                    expired, appVars, lastInit, lastRead, readsAfterShutdown,
                    textVars, ttsVars, monVars, greeted, dbVars >>

\* stop_listening: the call and its is_listening() check
stop_listening(t) ==
    /\ t \in Stoppers
    /\ pc[t] \in Returned
    /\ Goto(t, IF is_listening THEN "st_set" ELSE "ret_ok")
    /\ UNCHANGED << flagVars, cellVars, recVars, sessVars, appVars, callVars >>

\* stop_listening: STOP_LISTENING.store(true)
stop_listening_request(t) ==
    /\ pc[t] = "st_set"
    /\ STOP_LISTENING' = TRUE
    /\ Goto(t, "st_poll")
    /\ UNCHANGED << LISTENING, cellVars, recVars, sessVars, appVars, callVars >>

\* stop_listening: one turn of the polling loop; the five seconds may have
\* run out at any turn
stop_listening_poll(t) ==
    /\ pc[t] = "st_poll"
    /\ \E timed_out \in BOOLEAN :
         Goto(t, IF is_listening /\ ~timed_out THEN "st_poll" ELSE "st_final")
    /\ UNCHANGED << flagVars, cellVars, recVars, sessVars, appVars, callVars >>

\* a stop_listening that returns Ok after the polling loop without escalating
stop_listening_never_escalates(t) ==
    /\ pc[t] = "st_final"
    /\ Goto(t, "ret_ok")
    /\ UNCHANGED << flagVars, cellVars, recVars, sessVars, appVars, callVars >>

\* stop_listening: after the loop, force_stop_recording if still listening
stop_listening_escalate(t) ==
    /\ pc[t] = "st_final"
    /\ Goto(t, IF is_listening THEN "rs_check" ELSE "ret_ok")
    /\ UNCHANGED << flagVars, cellVars, recVars, sessVars, appVars, callVars >>

\* tauri_commands db_write (or import_settings): the settings page stores
\* another value under "selected_wake_word_engine", at any time
db_write ==
    /\ \E val \in EngineSettings \ { selected_wake_word_engine } :
         selected_wake_word_engine' = val
    /\ UNCHANGED << pc, flagVars, TAURI_APP_HANDLE, RUSTPOTTER, PORCUPINE, recVars,
                    sessVars, appVars, callVars >>

----------------------------------------------------------------------------
(* The GUI listener as a whole *)

InitCommon ==
    /\ pc = [t \in Threads |-> "idle"]
    /\ LISTENING = FALSE
    /\ STOP_LISTENING = FALSE
    /\ TAURI_APP_HANDLE = FALSE
    /\ RUSTPOTTER = FALSE
    /\ PORCUPINE = FALSE
    /\ RECORDER_TYPE = FALSE
    /\ FRAME_LENGTH = FALSE
    /\ IS_INITIALIZED = FALSE
    /\ IS_RECORDING = FALSE
    /\ micRecording = FALSE
    /\ loopResult = [t \in Threads |-> "none"]
    /\ frameOutcome = [t \in Threads |-> "idle"]
    /\ matched = [t \in Threads |-> 0]
    /\ execResult = [t \in Threads |-> "none"]
    /\ expired = [t \in Threads |-> FALSE]
    /\ SHUTDOWN_REQUESTED = FALSE
    /\ now = 0
    /\ start_time = 0
    /\ engine = [t \in Threads |-> "none"]
    /\ lastInit = NoInit
    /\ lastRead = "none"
    /\ readsAfterShutdown = 0
    /\ voice = <<>>
    /\ filtered_voice = <<>>
    /\ fetched = -1
    /\ COMMANDS_LIST = COMMANDS
    /\ detection = "idle"
    /\ TTS_MANAGER = "unset"
    /\ manager = "none"
    /\ is_speaking = FALSE
    /\ overlapped = {}
    /\ said = <<>>
    /\ devices = <<>>
    /\ callbacks = 0
    /\ lastScan = NoScan
    /\ is_running = FALSE
    /\ pollers = 0
    /\ observers = {}
    /\ locks = [m \in { "devices", "callbacks" } |-> "free"]
    /\ CURRENT_SETTINGS = <<>>
    /\ settings_lock = "free"
    /\ settings_file = <<>>
    /\ greeted = FALSE

InitGui ==
    /\ InitCommon
    /\ selected_wake_word_engine \in EngineSettings

RecorderStep(t) ==
    \/ recorder_init_check(t)
    \/ recorder_init_type(t)
    \/ init_pvrecorder(t)
    \/ recorder_init_store(t)
    \/ recorder_start_check(t)
    \/ recorder_start_device(t)
    \/ recorder_start_store(t)
    \/ recorder_stop_check(t)
    \/ recorder_stop_device(t)
    \/ recorder_stop_store(t)

StarterStep(t) ==
    \/ start_listening(t)
    \/ app_handle_get(t)
    \/ app_handle_set(t)
    \/ engine_init(t)
    \/ engine_init_failed(t)
    \/ listening_store(t)
    \/ recording_loop_check(t)
    \/ recording_loop_read(t)
    \/ recording_loop_detect(t)
    \/ keyword_callback(t)
    \/ voice_check(t)
    \/ voice_read(t)
    \/ voice_recognize(t)
    \/ voice_decide(t)
    \/ voice_execute(t)
    \/ session_expires(t)

StopperStep(t) ==
    \/ stop_listening(t)
    \/ stop_listening_request(t)
    \/ stop_listening_poll(t)
    \/ stop_listening_escalate(t)

StopRecordingStep(t) ==
    \/ stop_recording_failed(t)
    \/ stop_recording_listening(t)
    \/ stop_recording_stopflag(t)

NextGui ==
    \/ \E t \in Starters : StarterStep(t) \/ RecorderStep(t) \/ StopRecordingStep(t)
    \/ \E t \in Stoppers : StopperStep(t) \/ RecorderStep(t) \/ StopRecordingStep(t)

SpecGui == InitGui /\ [][NextGui]_vars

\* the GUI with its settings page: one start request, the stop requests and
\* db_write
NextGuiSettings ==
    \/ StarterStep("s1") \/ RecorderStep("s1") \/ StopRecordingStep("s1")
    \/ \E t \in Stoppers : StopperStep(t) \/ RecorderStep(t) \/ StopRecordingStep(t)
    \/ db_write

SpecGuiSettings == InitGui /\ [][NextGuiSettings]_vars

----------------------------------------------------------------------------
(* Properties of the GUI listener *)

\* the worker is in recording_loop (or the voice_command_recognition it nests)
LoopPcs == { "rl_check", "rl_read", "rl_detect", "kw_cb",
             "vc_check", "vc_read", "vc_recog", "vc_decide", "vc_exec" }

\* the worker is in AwaitingCommand
SessionPcs == { "vc_check", "vc_read", "vc_recog", "vc_decide", "vc_exec" }

\* the thread is in listener.rs stop_recording
StopRecordingPcs == { "rs_check", "rs_dev", "rs_store", "sr_failed",
                      "sr_listening", "sr_stopflag" }

\* C1: at most one worker loop runs at any time
C1_SingleFlight == Cardinality({ t \in Starters : pc[t] \in LoopPcs }) <= 1

\* C2: when the forced stop races one worker's final stop_recording, the
\* capture device is stopped once: pvrecorder::stop_recording is only called
\* on a started device
C2_DeviceStoppedOnce ==
    [][ \A t \in Starters \cup Stoppers :
          ( /\ pc[t] = "rs_dev"
            /\ pc'[t] # "rs_dev"
            /\ Cardinality({ w \in Starters : pc[w] \in LoopPcs \cup StopRecordingPcs }) <= 1 )
          => micRecording ]_vars

C7_ExecFailureReturnsToIdle ==
    \A t \in Starters : execResult[t] = "err" => pc[t] = "rl_check"

C7_Witness == \E t \in Starters : execResult[t] = "err" /\ pc[t] = "rl_check"

\* C8: every detection enters AwaitingCommand, and AwaitingCommand is entered
\* only by a detection
C8_SessionPerDetection ==
    [][ \A t \in Starters :
          /\ (pc[t] = "kw_cb" /\ pc'[t] # "kw_cb") => pc'[t] = "vc_check"
          /\ (pc'[t] \in SessionPcs /\ pc[t] \notin SessionPcs) => pc[t] = "kw_cb" ]_vars

\* C9: with no worker running and no stop_listening in progress both flags
\* are false
C9_FlagsResetAfterStop ==
    ( /\ \A t \in Starters : pc[t] \notin LoopPcs \cup StopRecordingPcs
      /\ \A u \in Stoppers : pc[u] \in Returned )
    => ~LISTENING /\ ~STOP_LISTENING

----------------------------------------------------------------------------
(* The console application: app.rs main_loop and handle_voice_commands,    *)
(* run by the main thread after main.rs initialized the recorder.          *)

\* the last second the clock is followed to
MaxClock == 17

\* the main thread is in handle_voice_commands' loop (AwaitingCommand)
AppSessionPcs == { "vr_check", "vr_read", "vr_recog", "vr_decide", "vr_exec" }

\* stt::recognize returns an Option: no error case
SttResults == { r \in RecognizeResults : r.kind # "err" }

\* reads counted after the shutdown flag was set
MaxCounted == 2

\* one more frame read, counted when the shutdown flag is already set
count_read ==
    readsAfterShutdown' =
        IF SHUTDOWN_REQUESTED /\ readsAfterShutdown < MaxCounted
        THEN readsAfterShutdown + 1 ELSE readsAfterShutdown

\* the console's listener::data_callback (rustpotter.rs): a panic when the
\* RUSTPOTTER cell is empty (get().unwrap()), else Some(0) for a detection
\* whose score exceeds the minimum and None otherwise
rustpotter_data_callback_results ==
    IF ~RUSTPOTTER THEN { "panic" }
    ELSE { IF score > RUSPOTTER_MIN_SCORE THEN "detected" ELSE "none" :
             score \in DetectionScores }

\* how handle_voice_commands classifies what stt::recognize returned
handle_voice_outcome(r) ==
    IF r.kind = "none" THEN "none"
    ELSE IF trim(r.text) = <<>> THEN "empty"
    ELSE LET filtered == filter_recognized_voice(r.text)
         IN  IF trim(filtered) = <<>> THEN "filtered_empty"
             ELSE IF fetch_command(filtered, COMMANDS) = 0 THEN "no_match"
             ELSE "match"

\* the command find_matching_command finds for the result, 0 if none
handle_voice_command(r) ==
    IF handle_voice_outcome(r) = "match"
    THEN fetch_command(filter_recognized_voice(r.text), COMMANDS)
    ELSE 0

\* start_time.elapsed() > config::CMS_WAIT_DELAY
timed_out == now - start_time > CMS_WAIT_DELAY

\* main.rs initialize_audio_system: recorder::init()
initialize_audio_system ==
    /\ pc[AppThread] = "idle"
    /\ Goto(AppThread, "ri_check")
    /\ UNCHANGED << flagVars, cellVars, recVars, sessVars, appVars, callVars >>

\* the console's rustpotter::init: Err(()) when the instance cannot be
\* created, a panic (unwrap) when any wake-word file fails to load, else the
\* instance is stored
console_rustpotter_init_result(created, loaded_files) ==
    IF ~created THEN InitResult("create_failed", 0)
    ELSE IF loaded_files < NumWakeWordFiles THEN InitResult("load_panic", loaded_files)
    ELSE InitResult("ok", loaded_files)

\* main.rs initialize_audio_system: listener::init(), which calls
\* rustpotter::init() and drops its result
listener_init ==
    /\ pc[AppThread] = "li_init"
    /\ \E created \in BOOLEAN, loaded_files \in 0..NumWakeWordFiles :
         LET r == console_rustpotter_init_result(created, loaded_files)
         IN  /\ lastInit' = r
             /\ RUSTPOTTER' = (RUSTPOTTER \/ r.outcome = "ok")
             /\ Goto(AppThread, IF r.outcome = "load_panic" THEN "init_panicked"
                                ELSE "ml_start")
    /\ UNCHANGED << flagVars, TAURI_APP_HANDLE, PORCUPINE, selected_wake_word_engine,
                    recVars, sessVars, appVars, engine, lastRead, readsAfterShutdown,
                    textVars, ttsVars, monVars, greeted, dbVars >>

\* main_loop: recorder::start_recording()
main_loop ==
    /\ pc[AppThread] = "ml_start"
    /\ Goto(AppThread, "rst_check")
    /\ lastInit' = NoInit
    /\ UNCHANGED << flagVars, cellVars, recVars, sessVars, appVars, engine, lastRead,
                    readsAfterShutdown,
                    textVars, ttsVars, monVars, greeted, dbVars >>

\* 'wake_word_loop: the should_shutdown() check at the head of the loop
wake_word_check ==
    /\ pc[AppThread] = "wl_check"
    /\ Goto(AppThread, IF SHUTDOWN_REQUESTED THEN "ml_done" ELSE "wl_read")
    /\ execResult' = [execResult EXCEPT ![AppThread] = "none"]
    /\ UNCHANGED << flagVars, cellVars, recVars, loopResult, frameOutcome, matched,
                    expired, appVars, callVars >>

\* a 'wake_word_loop whose failed read is retried without the shutdown check
wake_word_read_retrying ==
    /\ pc[AppThread] = "wl_read"
    /\ \E ok \in read_microphone_results :
         Goto(AppThread, IF ok THEN "wl_detect" ELSE "wl_read")
    /\ count_read
    /\ UNCHANGED << flagVars, cellVars, recVars, sessVars, appVars, engine, lastInit,
                    lastRead,
                    textVars, ttsVars, monVars, greeted, dbVars >>

\* 'wake_word_loop: read_microphone, a failed read is logged and the loop
\* continues
wake_word_read ==
    /\ pc[AppThread] = "wl_read"
    /\ \E ok \in read_microphone_results :
         Goto(AppThread, IF ok THEN "wl_detect" ELSE "wl_check")
    /\ count_read
    /\ UNCHANGED << flagVars, cellVars, recVars, sessVars, appVars, engine, lastInit,
                    lastRead,
                    textVars, ttsVars, monVars, greeted, dbVars >>

\* 'wake_word_loop: listener::data_callback; on a detection
\* handle_voice_commands is entered and takes start_time
wake_word_detect ==
    /\ pc[AppThread] = "wl_detect"
    /\ \E r \in rustpotter_data_callback_results :
         /\ start_time' = (IF r = "detected" THEN now ELSE start_time)
         /\ Goto(AppThread, CASE r = "detected" -> "vr_check"
                              [] r = "none"     -> "wl_check"
                              [] r = "panic"    -> "frame_panicked")
    /\ UNCHANGED << flagVars, cellVars, recVars, sessVars, SHUTDOWN_REQUESTED, now,
                    callVars >>

\* 'voice_recognition: the should_shutdown() check at the head of the loop
voice_recognition_check ==
    /\ pc[AppThread] = "vr_check"
    /\ Goto(AppThread, IF SHUTDOWN_REQUESTED THEN "wl_check" ELSE "vr_read")
    /\ execResult' = [execResult EXCEPT ![AppThread] = "none"]
    /\ UNCHANGED << flagVars, cellVars, recVars, loopResult, frameOutcome, matched,
                    expired, appVars, callVars >>

\* 'voice_recognition: read_microphone, a failed read goes straight to the
\* next iteration
voice_recognition_read ==
    /\ pc[AppThread] = "vr_read"
    /\ \E ok \in read_microphone_results :
         Goto(AppThread, IF ok THEN "vr_recog" ELSE "vr_check")
    /\ count_read
    /\ UNCHANGED << flagVars, cellVars, recVars, sessVars, appVars, engine, lastInit,
                    lastRead,
                    textVars, ttsVars, monVars, greeted, dbVars >>

\* 'voice_recognition: stt::recognize, the filter and the command lookup
voice_recognition_recognize ==
    /\ pc[AppThread] = "vr_recog"
    /\ \E r \in SttResults :
         /\ frameOutcome' = [frameOutcome EXCEPT ![AppThread] = handle_voice_outcome(r)]
         /\ matched' = [matched EXCEPT ![AppThread] = handle_voice_command(r)]
    /\ Goto(AppThread, "vr_decide")
    /\ UNCHANGED << flagVars, cellVars, recVars, loopResult, execResult, expired,
                    appVars, callVars >>

\* where 'voice_recognition goes with the classified frame: the two empty
\* cases continue, a miss breaks, only None reaches the timeout check
voice_recognition_next(outcome) ==
    CASE outcome = "none"           -> (IF timed_out THEN "wl_check" ELSE "vr_check")
      [] outcome = "empty"          -> "vr_check"
      [] outcome = "filtered_empty" -> "vr_check"
      [] outcome = "no_match"       -> "wl_check"
      [] outcome = "match"          -> "vr_exec"

voice_recognition_decide ==
    /\ pc[AppThread] = "vr_decide"
    /\ Goto(AppThread, voice_recognition_next(frameOutcome[AppThread]))
    /\ frameOutcome' = [frameOutcome EXCEPT ![AppThread] = "idle"]
    /\ UNCHANGED << flagVars, cellVars, recVars, loopResult, matched, execResult,
                    expired, appVars, callVars >>

\* where 'voice_recognition goes when execute_found_command has returned;
\* start_time is not assigned on any of the three ways
execute_found_command_next(res) ==
    CASE res = "chain" -> "vr_check"
      [] res = "done"  -> "wl_check"
      [] res = "err"   -> "wl_check"

\* execute_found_command: the command runs to its end, on this thread
execute_found_command ==
    /\ pc[AppThread] = "vr_exec"
    /\ \E res \in execute_command_results(matched[AppThread]) :
         /\ execResult' = [execResult EXCEPT ![AppThread] = res]
         /\ Goto(AppThread, execute_found_command_next(res))
    /\ matched' = [matched EXCEPT ![AppThread] = 0]
    /\ UNCHANGED << flagVars, cellVars, recVars, loopResult, frameOutcome, expired,
                    appVars, callVars >>

\* main.rs should_shutdown
should_shutdown == SHUTDOWN_REQUESTED

\* a request that flips the flag instead of setting it
request_shutdown_flips ==
    /\ SHUTDOWN_REQUESTED' = ~SHUTDOWN_REQUESTED
    /\ UNCHANGED << pc, flagVars, cellVars, recVars, sessVars, now, start_time,
                    callVars >>

\* main.rs request_shutdown and the signal handlers
request_shutdown ==
    /\ ~SHUTDOWN_REQUESTED
    /\ SHUTDOWN_REQUESTED' = TRUE
    /\ UNCHANGED << pc, flagVars, cellVars, recVars, sessVars, now, start_time,
                    callVars >>

\* a second passes
Tick ==
    /\ now < MaxClock
    /\ now' = now + 1
    /\ UNCHANGED << pc, flagVars, cellVars, recVars, sessVars, SHUTDOWN_REQUESTED,
                    start_time, callVars >>

InitApp ==
    /\ InitCommon
    /\ selected_wake_word_engine = DEFAULT_WAKE_WORD_ENGINE

AppRecorderStep ==
    \/ recorder_init_check(AppThread)
    \/ recorder_init_type(AppThread)
    \/ init_pvrecorder(AppThread)
    \/ recorder_init_store(AppThread)
    \/ recorder_start_check(AppThread)
    \/ recorder_start_device(AppThread)
    \/ recorder_start_store(AppThread)

AppStep ==
    \/ initialize_audio_system
    \/ listener_init
    \/ main_loop
    \/ wake_word_check
    \/ wake_word_read
    \/ wake_word_detect
    \/ voice_recognition_check
    \/ voice_recognition_read
    \/ voice_recognition_recognize
    \/ voice_recognition_decide
    \/ execute_found_command

NextApp == AppStep \/ AppRecorderStep \/ request_shutdown \/ Tick

SpecApp == InitApp /\ [][NextApp]_vars

----------------------------------------------------------------------------
(* Properties of the console application *)

\* C4: once the time since the session was entered exceeds CMS_WAIT_DELAY, a
\* frame that runs no command (no result, empty text, text filtered to empty,
\* text matching nothing) ends the session: the loop is back in Idle
C4_TimeoutReturnsToIdle ==
    [][ ( /\ pc[AppThread] = "vr_decide"
          /\ pc'[AppThread] # "vr_decide"
          /\ frameOutcome[AppThread] \in { "none", "empty", "filtered_empty", "no_match" }
          /\ timed_out )
        => pc'[AppThread] = "wl_check" ]_vars

\* C5: when a chaining command has executed successfully the session goes on
\* and its timer starts again at the command's completion
C5_ChainingResetsTimer ==
    [][ ( /\ pc[AppThread] = "vr_exec"
          /\ execResult'[AppThread] = "chain" )
        => /\ pc'[AppThread] \in AppSessionPcs
           /\ start_time' = now' ]_vars

\* C6: text that matches no command leaves the session in AwaitingCommand with
\* start_time as it was, unless the timeout has been exceeded
C6_MissStaysInSession ==
    [][ ( /\ pc[AppThread] = "vr_decide"
          /\ pc'[AppThread] # "vr_decide"
          /\ frameOutcome[AppThread] = "no_match"
          /\ ~timed_out )
        => /\ pc'[AppThread] \in AppSessionPcs
           /\ start_time' = start_time ]_vars

----------------------------------------------------------------------------
(* Properties of the back-end initializers *)

\* the back-end the setting selects holds an instance stored by an earlier,
\* successful initialization
backend_initialized ==
    \/ get_wake_word_engine = "rustpotter" /\ RUSTPOTTER
    \/ get_wake_word_engine = "picovoice" /\ PORCUPINE

\* what an initializer can fail on by itself, whatever was stored before
OwnInitFailures ==
    { "create_failed", "no_files", "no_model", "key_missing", "key_blank",
      "no_keyword", "rejected" }
\* shutdown, called directly: the IS_RECORDING check, stop_recording with its
\* own checks, device call and store, then the IS_INITIALIZED check and store
recorder_shutdown(t) ==
    /\ \/ /\ pc[t] = "sd_check"
          /\ Goto(t, IF IS_RECORDING THEN "sd_stop" ELSE "sd_init")
          /\ UNCHANGED recVars
       \/ /\ pc[t] = "sd_stop"
          /\ Goto(t, IF ~IS_INITIALIZED THEN "ret_err"
                     ELSE IF ~IS_RECORDING THEN "sd_init"
                     ELSE "sd_dev")
          /\ UNCHANGED recVars
       \/ /\ pc[t] = "sd_dev"
          /\ \E dev_ok \in BOOLEAN :
               /\ micRecording' = (IF dev_ok THEN FALSE ELSE micRecording)
               /\ Goto(t, IF dev_ok THEN "sd_store" ELSE "ret_err")
          /\ UNCHANGED << RECORDER_TYPE, FRAME_LENGTH, IS_INITIALIZED, IS_RECORDING >>
       \/ /\ pc[t] = "sd_store"
          /\ IS_RECORDING' = FALSE
          /\ Goto(t, "sd_init")
          /\ UNCHANGED << RECORDER_TYPE, FRAME_LENGTH, IS_INITIALIZED, micRecording >>
       \/ /\ pc[t] = "sd_init"
          /\ Goto(t, IF IS_INITIALIZED THEN "sd_clear" ELSE "ret_ok")
          /\ UNCHANGED recVars
       \/ /\ pc[t] = "sd_clear"
          /\ IS_INITIALIZED' = FALSE
          /\ Goto(t, "ret_ok")
          /\ UNCHANGED << RECORDER_TYPE, FRAME_LENGTH, IS_RECORDING, micRecording >>
    /\ UNCHANGED << flagVars, cellVars, sessVars, appVars, callVars >>

\* C11: initializing the selected back-end again after a successful
\* initialization returns success rather than an error, even where every
\* resource the initializer uses is still available: the start goes on to the
\* recorder and the stored instance is left as it is
C11_ReinitIsNoOp ==
    [][ \A t \in Starters :
          ( /\ pc[t] = "sl_engine"
            /\ pc'[t] # "sl_engine"
            /\ backend_initialized
            /\ lastInit'.outcome \notin OwnInitFailures )
          => /\ pc'[t] = "ri_check"
             /\ UNCHANGED << RUSTPOTTER, PORCUPINE >> ]_vars

----------------------------------------------------------------------------
(* The recorder on its own: threads calling its functions in any order *)

ClientStep(t) ==
    \/ recorder_call(t, "ri_check")      \* init
    \/ recorder_call(t, "rst_check")     \* start_recording
    \/ recorder_call(t, "rs_check")      \* stop_recording
    \/ recorder_call(t, "rd_call")       \* read_microphone
    \/ recorder_call(t, "sd_check")      \* shutdown
    \/ read_microphone(t)
    \/ recorder_shutdown(t)

InitRecorder ==
    /\ InitCommon
    /\ selected_wake_word_engine = DEFAULT_WAKE_WORD_ENGINE

NextRecorder == \E t \in Clients : ClientStep(t) \/ RecorderStep(t)

SpecRecorder == InitRecorder /\ [][NextRecorder]_vars

\* C12: init() called again after an init() that succeeded returns success
\* at once and allocates nothing: recorder type, frame length, microphone
\* and both flags stay as the first call left them
C12_SecondInitIsNoOp ==
    [][ \A t \in Clients :
          (pc[t] = "ri_check" /\ pc'[t] # "ri_check" /\ IS_INITIALIZED)
          => /\ pc'[t] = "ret_ok"
             /\ RECORDER_TYPE /\ FRAME_LENGTH
             /\ UNCHANGED recVars ]_vars

\* C12 witness: init() is called with the recorder fully initialized by an
\* earlier call
C12_Witness ==
    \E t \in Clients :
        pc[t] = "ri_check" /\ IS_INITIALIZED /\ RECORDER_TYPE /\ FRAME_LENGTH

\* C13: read_microphone outside the start..stop window returns an error
\* without reading the device or touching the recorder: InitializationFailed
\* when the recorder is not initialized, RecordingFailed when it is
\* initialized but not recording
C13_ReadOutsideWindowIsError ==
    [][ \A t \in Clients :
          (pc[t] = "rd_call" /\ pc'[t] # "rd_call" /\ (~IS_INITIALIZED \/ ~IS_RECORDING))
          => /\ pc'[t] = "ret_err"
             /\ lastRead' \notin { "Ok", "ReadError" }
             /\ error_variant(lastRead') =
                  (IF ~IS_INITIALIZED THEN "InitializationFailed" ELSE "RecordingFailed")
             /\ UNCHANGED recVars ]_vars

\* C13 witness: a read after stop_recording was refused as not started; the
\* device itself is stopped and the recorder still initialized
C13_Witness ==
    \E t \in Clients :
        /\ pc[t] = "ret_err"
        /\ lastRead = "NotStarted"
        /\ IS_INITIALIZED /\ ~IS_RECORDING /\ ~micRecording

----------------------------------------------------------------------------
(* Properties of the loops under failures and shutdown *)

\* C14: a recognizer call that fails on one frame of a session that has not
\* timed out is treated as no result: the worker stays in AwaitingCommand
\* with its timer untouched and goes on to the next frame
C14_FrameErrorKeepsState ==
    [][ \A t \in Starters :
          ( /\ pc[t] = "vc_decide"
            /\ pc'[t] # "vc_decide"
            /\ frameOutcome[t] = "error"
            /\ ~expired[t] )
          => /\ pc'[t] = "vc_check"
             /\ expired'[t] = expired[t] ]_vars

\* C15: in every state the capture loop can reach, also after an
\* initialization that stored no detector instance, the per-frame detector
\* call returns (no detection or a detection) and never panics
C15_DetectorNeverPanics ==
    pc[AppThread] # "frame_panicked"

\* C16: a failed initialization of the selected back-end is fatal for that
\* start: start_listening goes straight to its error return, and neither the
\* initializer nor the return starts the device, runs a worker loop or
\* touches the listening flags
C16_InitFailureIsFatal ==
    [][ \A t \in Starters :
          /\ ( /\ pc[t] = "sl_engine"
               /\ pc'[t] # "sl_engine"
               /\ lastInit'.outcome # "ok" )
             => /\ pc'[t] = "sl_failed"
                /\ UNCHANGED << flagVars, recVars >>
          /\ ( pc[t] = "sl_failed" /\ pc'[t] # "sl_failed" )
             => /\ pc'[t] = "ret_err"
                /\ UNCHANGED << flagVars, recVars >> ]_vars

\* C16 witness: a start whose wake-word files all failed to load is about to
\* return its error; nothing is listening and the device is not recording
C16_Witness ==
    \E t \in Starters :
        /\ pc[t] = "sl_failed"
        /\ lastInit.outcome = "no_files"
        /\ ~LISTENING /\ ~IS_RECORDING /\ ~micRecording

\* C17: with the detector instance created, the initialization of the
\* acoustic-model back-end stores no instance when none of its wake-word
\* files loads, and when at least one file loads it completes without
\* panicking and stores the instance, whether or not other files failed
C17_InitFailsIffNoFileLoads ==
    [][ ( /\ pc[AppThread] = "li_init"
          /\ pc'[AppThread] # "li_init"
          /\ lastInit'.outcome # "create_failed" )
        => IF lastInit'.loaded = 0
           THEN RUSTPOTTER' = RUSTPOTTER
           ELSE /\ pc'[AppThread] = "ml_start"
                /\ RUSTPOTTER' ]_vars

\* C18: once main_loop has returned because the shutdown flag was set, the
\* capture device is released: the recorder is not recording
C18_ShutdownReleasesDevice ==
    pc[AppThread] = "ml_done" => (~IS_RECORDING /\ ~micRecording)

C20_FramesGoToStartedEngine ==
    \A t \in Starters :
        pc[t] = "rl_detect" => get_wake_word_engine = engine[t]

----------------------------------------------------------------------------
(* app.rs: the text normalizer and the command lookup on their own *)

\* the longest recognized text, in parts
MaxParts == 4

\* what stt::recognize can return: up to MaxParts fillers and command texts
\* separated by single spaces, in lower case or with a capital first letter
VoiceInputs ==
    LET VoiceParts ==
            << <<"d","j","a","r","v","i","s">>,
               <<"s","h","r">>,
               <<"d","a"," ","s","h","r">>,
               <<"s","k","a","j","i">>,
               <<"v","r","e","m","b">>,
               <<"v","k","l","f","c","i"," ","m","u","z","x","k","u">> >>
        joined(ix) ==
            LET J[n \in 1..Len(ix)] ==
                    IF n = 1 THEN VoiceParts[ix[1]]
                    ELSE J[n - 1] \o <<" ">> \o VoiceParts[ix[n]]
            IN  J[Len(ix)]
        capitalized(t) ==
            [i \in 1..Len(t) |->
                IF i = 1 /\ \E k \in 1..Len(LowerCase) : LowerCase[k] = t[1]
                THEN UpperCase[CHOOSE k \in 1..Len(LowerCase) : LowerCase[k] = t[1]]
                ELSE t[i]]
        texts == { joined(ix) :
                     ix \in UNION { [1..n -> 1..Len(VoiceParts)] : n \in 1..MaxParts } }
    IN  texts \cup { capitalized(t) : t \in texts }

\* the tables fetch_command can be given: COMMANDS with the entries' ratio
\* thresholds overridden or absent
CommandTables ==
    { [i \in 1..Len(COMMANDS) |->
         [COMMANDS[i] EXCEPT !.threshold = IF i = 1 THEN th1 ELSE th2]] :
         th1 \in { {30}, {65}, {100} }, th2 \in { {}, {50} } }

\* stt::recognize returns Some(recognized_voice)
recognize ==
    /\ voice = <<>>
    /\ voice' \in VoiceInputs
    /\ UNCHANGED << pc, progVars, filtered_voice, fetched, COMMANDS_LIST, detection, ttsVars, monVars >>

\* recognized_voice = filter_recognized_voice(recognized_voice), and the same
\* text through listener.rs filter_recognized_text
filter_recognized ==
    /\ voice # <<>>
    /\ filtered_voice = <<>>
    /\ \E text \in { filter_recognized_voice(voice), filter_recognized_text(voice) } :
         filtered_voice' = << text >>
    /\ UNCHANGED << pc, progVars, voice, fetched, COMMANDS_LIST, detection, ttsVars, monVars >>

\* a lookup that is handed the recognized text as it came, not the filtered one
find_matching_command_raw ==
    /\ filtered_voice # <<>>
    /\ fetched = -1
    /\ \E table \in CommandTables :
         /\ COMMANDS_LIST' = table
         /\ fetched' = fetch_command(voice, table)
    /\ UNCHANGED << pc, progVars, voice, filtered_voice, detection, ttsVars, monVars >>

\* find_matching_command(&recognized_voice): commands::fetch_command on the
\* filtered text and the loaded table
find_matching_command ==
    /\ filtered_voice # <<>>
    /\ fetched = -1
    /\ \E table \in CommandTables :
         /\ COMMANDS_LIST' = table
         /\ fetched' = fetch_command(filtered_voice[1], table)
    /\ UNCHANGED << pc, progVars, voice, filtered_voice, detection, ttsVars, monVars >>

\* the services start from the same state as the recorder on its own
SpecText ==
    InitRecorder /\ [][recognize \/ filter_recognized \/ find_matching_command]_vars

----------------------------------------------------------------------------
(* audio_monitor.rs and audio/audio_monitor.rs: AudioMonitor *)

\* the most devices the system reports
MaxDevices == 2

\* the most callbacks registered
MaxCallbacks == 2

\* AudioDevice.id
DeviceIds == 1..MaxDevices

\* what get_system_devices_static can return: Err, or the devices present,
\* id -> the attributes of the AudioDevice
SystemDevices ==
    { [ ok |-> FALSE, devices |-> <<>> ] }
      \cup { [ ok |-> TRUE, devices |-> found] :
               found \in UNION { [ids -> { "mic", "usb mic" }] : ids \in SUBSET DeviceIds } }

\* the events the three loops of a scan send to a callback, each loop visiting
\* the ids in the order the HashMap yields them
scan_events(old, new, order) ==
    LET sent(kind, hit(_)) ==
            LET F[n \in 0..Len(order)] ==
                    IF n = 0 THEN <<>>
                    ELSE IF hit(order[n])
                         THEN Append(F[n - 1], [kind |-> kind, id |-> order[n]])
                         ELSE F[n - 1]
            IN  F[Len(order)]
        added(id) == id \in DOMAIN new /\ id \notin DOMAIN old
        removed(id) == id \in DOMAIN old /\ id \notin DOMAIN new
        changed(id) == /\ id \in DOMAIN new
                       /\ id \in DOMAIN old
                       /\ old[id] # new[id]
    IN  sent("DeviceAdded", added) \o sent("DeviceRemoved", removed)
          \o sent("DeviceChanged", changed)

\* the most polling threads alive
MaxPollers == 2

\* the calls a callback can make into the monitor when it is invoked
ObserverCalls == { "get_devices", "get_device", "add_callback" }

\* the mutex a call into the monitor locks
lock_of(call) == IF call = "add_callback" THEN "callbacks" ELSE "devices"

\* the mutexes a scan holds while it invokes the callbacks: scan_devices_update
\* keeps both guards, scan_and_update_devices clones the callbacks and keeps
\* the guard of the map
held_in_callbacks(by) ==
    IF by = "scan_devices_update" THEN { "devices", "callbacks" } ELSE { "devices" }

\* the polling threads that are not inside a callback that never returns
polling == pollers - (IF \E m \in DOMAIN locks : locks[m] = "held" THEN 1 ELSE 0)

\* a polling thread is in its loop and can take the mutexes a scan locks
can_scan == polling > 0 /\ \A m \in DOMAIN locks : locks[m] = "free"

\* a scan that got the current devices. Every callback is called with every
\* event and the map of devices becomes `snapshot`; but a callback that calls
\* back into the monitor locks a std::sync::Mutex its own thread holds, and
\* that lock() never returns: the thread deadlocks with the guards held, or
\* panics and poisons them
scan(by, current, order, snapshot) ==
    LET events == scan_events(devices, current, order)
        reentered == { call \in observers : lock_of(call) \in held_in_callbacks(by) }
    IN  IF events # <<>> /\ reentered # {}
        THEN \E end \in { "held", "poisoned" } :
               /\ locks' = [m \in DOMAIN locks |->
                              IF m \in held_in_callbacks(by) THEN end ELSE locks[m]]
               /\ pollers' = IF end = "poisoned" THEN pollers - 1 ELSE pollers
               /\ lastScan' = [ outcome |-> "blocked", by |-> by ]
               /\ UNCHANGED << pc, progVars, textVars, ttsVars, devices, callbacks,
                               is_running, observers >>
        ELSE /\ devices' = snapshot
             /\ lastScan' = [ outcome |-> "ok", by |-> by,
                              previous |-> devices, current |-> current,
                              notified |-> [cb \in 1..callbacks |-> events] ]
             /\ UNCHANGED << pc, progVars, textVars, ttsVars, callbacks, runVars >>

\* the orders a HashMap can yield the ids in
IdOrders ==
    { order \in [1..MaxDevices -> DeviceIds] :
        \A i, j \in 1..MaxDevices : i # j => order[i] # order[j] }

\* add_callback: callbacks.push(callback), of a callback that makes `calls`
add_callback(calls) ==
    /\ callbacks < MaxCallbacks
    /\ locks["callbacks"] = "free"
    /\ callbacks' = callbacks + 1
    /\ observers' = observers \cup calls
    /\ lastScan' = NoScan
    /\ UNCHANGED << pc, progVars, textVars, ttsVars, devices, is_running, pollers,
                    locks >>

\* scan_devices_initial: the devices found are inserted into the map, and no
\* callback is called
scan_devices_initial(current) ==
    /\ devices' = IF ~current.ok \/ locks["devices"] = "poisoned" THEN devices
                  ELSE [id \in DOMAIN devices \cup DOMAIN current.devices |->
                          IF id \in DOMAIN current.devices THEN current.devices[id]
                          ELSE devices[id]]
    /\ lastScan' = NoScan

\* start: under the is_running guard, kept until start returns, a running
\* monitor is left alone; else the flag is set, then the initial scan runs and
\* its error leaves through `?`, and then the polling thread is spawned
start ==
    /\ IF is_running
       THEN UNCHANGED << devices, lastScan, is_running, pollers >>
       ELSE \E current \in SystemDevices :
              /\ locks["devices"] # "held"
              /\ pollers < MaxPollers
              /\ is_running' = TRUE
              /\ scan_devices_initial(current)
              /\ pollers' = IF current.ok /\ locks["devices"] = "free"
                            THEN pollers + 1 ELSE pollers
    /\ UNCHANGED << pc, progVars, textVars, ttsVars, callbacks, observers, locks >>

\* stop: a stopped monitor is left alone; else the flag is cleared, and the
\* polling thread is not joined
stop ==
    /\ is_running' = FALSE
    /\ UNCHANGED << pc, progVars, textVars, ttsVars, devices, callbacks, lastScan,
                    pollers, observers, locks >>

\* the polling thread at the head of its loop reads is_running and leaves the
\* loop when it is false
polling_thread_exit ==
    /\ polling > 0
    /\ ~is_running
    /\ pollers' = pollers - 1
    /\ UNCHANGED << pc, progVars, textVars, ttsVars, devices, callbacks, lastScan,
                    is_running, observers, locks >>

\* a scan that leaves out the final `*devices_map = new_devices`
scan_devices_update_keeps_map ==
    /\ can_scan
    /\ \E current \in SystemDevices, order \in IdOrders :
        IF ~current.ok
        THEN /\ lastScan' = [ outcome |-> "err", by |-> "scan_devices_update" ]
             /\ UNCHANGED << pc, progVars, textVars, ttsVars, devices, callbacks,
                             runVars >>
        ELSE scan("scan_devices_update", current.devices, order,
                  [id \in DOMAIN devices \cap DOMAIN current.devices |-> devices[id]])

\* audio_monitor.rs scan_devices_update, run by the polling thread: a failed
\* query is logged and the scan returns Ok(())
scan_devices_update ==
    /\ can_scan
    /\ \E current \in SystemDevices, order \in IdOrders :
        IF ~current.ok
        THEN /\ lastScan' = [ outcome |-> "err", by |-> "scan_devices_update" ]
             /\ UNCHANGED << pc, progVars, textVars, ttsVars, devices, callbacks,
                             runVars >>
        ELSE scan("scan_devices_update", current.devices, order, current.devices)

\* audio/audio_monitor.rs scan_and_update_devices, run by the polling thread:
\* a failed query is returned to the thread, which logs it
scan_and_update_devices ==
    /\ can_scan
    /\ \E current \in SystemDevices, order \in IdOrders :
        IF ~current.ok
        THEN /\ lastScan' = [ outcome |-> "err", by |-> "scan_and_update_devices" ]
             /\ UNCHANGED << pc, progVars, textVars, ttsVars, devices, callbacks,
                             runVars >>
        ELSE scan("scan_and_update_devices", current.devices, order, current.devices)

\* the monitor with callbacks that only take the event
SpecMonitor ==
    InitRecorder
      /\ [][add_callback({}) \/ start \/ stop \/ polling_thread_exit
              \/ scan_devices_update \/ scan_and_update_devices]_vars

\* the monitor with callbacks of which each can make one call into the monitor
SpecMonitorObservers ==
    InitRecorder
      /\ [][(\E call \in ObserverCalls : add_callback({ call })) \/ start \/ stop
              \/ polling_thread_exit \/ scan_devices_update
              \/ scan_and_update_devices]_vars

----------------------------------------------------------------------------
(* tts.rs: speak *)

\* tts::init: TTS_MANAGER.set(...) with the engine detect_best_engine chose
tts_init ==
    /\ TTS_MANAGER = "unset"
    /\ TTS_MANAGER' \in { "System", "OpenAI", "Piper" }
    /\ UNCHANGED << pc, progVars, textVars, monVars, manager, is_speaking,
                    overlapped, said >>

\* a thread calls speak(text): TTS_MANAGER.get(), then manager_arc.lock()
speak(t) ==
    /\ pc[t] \in Returned
    /\ Len(said) < MaxCounted
    /\ Goto(t, IF TTS_MANAGER = "unset" THEN "ret_err" ELSE "sp_lock")
    /\ overlapped' = IF \E u \in Clients : pc[u] = "sp_speak"
                     THEN overlapped \cup { t }
                     ELSE overlapped \ { t }
    /\ UNCHANGED << progVars, textVars, monVars, TTS_MANAGER, manager,
                    is_speaking, said >>

\* speak got the manager's lock, which it keeps until it returns: the
\* is_speaking check, and the flag set before the engine is called
speak_locked(t) ==
    /\ pc[t] = "sp_lock"
    /\ manager = "none"
    /\ IF is_speaking
       THEN /\ Goto(t, "ret_ok")
            /\ UNCHANGED << manager, is_speaking, overlapped >>
       ELSE /\ Goto(t, "sp_speak")
            /\ manager' = t
            /\ is_speaking' = TRUE
            /\ UNCHANGED overlapped
    /\ UNCHANGED << progVars, textVars, monVars, TTS_MANAGER, said >>

\* speak_system / speak_openai returned (they wait for the player to end):
\* the flag is reset, the result returned and the lock released
speak_engine(t) ==
    /\ pc[t] = "sp_speak"
    /\ \E played \in IF TTS_MANAGER = "Piper" THEN { FALSE } ELSE BOOLEAN :
         /\ said' = IF played THEN Append(said, t) ELSE said
         /\ Goto(t, IF played THEN "ret_ok" ELSE "ret_err")
    /\ is_speaking' = FALSE
    /\ manager' = "none"
    /\ overlapped' = overlapped \ { t }
    /\ UNCHANGED << progVars, textVars, monVars, TTS_MANAGER >>

SpecTts ==
    InitRecorder
      /\ [][tts_init
              \/ \E t \in Clients : speak(t) \/ speak_locked(t) \/ speak_engine(t)]_vars

----------------------------------------------------------------------------
(* Properties of command recognition and execution *)

\* C21: while a command executes no frame is captured and no other command
\* executes: no other worker is in read_microphone or in execute_command
C21_ExecutionExcludesCapture ==
    \A t \in Starters :
        pc[t] = "vc_exec"
        => \A u \in Starters \ { t } : pc[u] \notin { "rl_read", "vc_read", "vc_exec" }

----------------------------------------------------------------------------
(* Properties of the text normalizer *)

\* the text with the first occurrence of each of the first n phrases removed,
\* one phrase after the other
RECURSIVE first_occurrences_removed(_, _, _)
first_occurrences_removed(text, phrases, n) ==
    IF n = 0 THEN text
    ELSE replace_first(first_occurrences_removed(text, phrases, n - 1), phrases[n])

\* the first i characters of s without those that lie in an occurrence of p
RECURSIVE outside_occurrences(_, _, _)
outside_occurrences(s, p, i) ==
    IF i = 0 THEN <<>>
    ELSE IF \E j \in (i - Len(p) + 1)..i : j >= 1 /\ occurs_at(s, p, j)
         THEN outside_occurrences(s, p, i - 1)
         ELSE Append(outside_occurrences(s, p, i - 1), s[i])

\* s without every occurrence of p (a filler phrase of the list has no proper
\* prefix that is also its suffix, so two occurrences of it never overlap)
every_occurrence_removed(s, p) ==
    IF p = <<>> \/ ~contains(s, p) THEN s ELSE outside_occurrences(s, p, Len(s))

\* the text with every occurrence of each of the first n phrases removed, one
\* phrase after the other
RECURSIVE all_occurrences_removed(_, _, _)
all_occurrences_removed(text, phrases, n) ==
    IF n = 0 THEN text
    ELSE every_occurrence_removed(all_occurrences_removed(text, phrases, n - 1),
                                  phrases[n])

\* C23 (as claimed): the normalizer's result is the lowercased text with, for
\* each filler phrase in list order, only the first occurrence of the phrase
\* removed, trimmed.
C23_RemovesFirstOccurrenceOnly ==
    filtered_voice # <<>>
    => filtered_voice[1]
         = trim(first_occurrences_removed(to_lowercase(voice), ASSISTANT_PHRASES_TBR,
                                        Len(ASSISTANT_PHRASES_TBR)))

\* C23 (amended): the normalizer's result is the lowercased text with, for
\* each filler phrase in list order, every occurrence of the phrase that a
\* pass from the left finds removed, trimmed.
C23_RemovesEveryOccurrence ==
    [][ ( filtered_voice = <<>> /\ filtered_voice' # <<>> )
        => filtered_voice'[1]
             = trim(all_occurrences_removed(to_lowercase(voice), ASSISTANT_PHRASES_TBR,
                                          Len(ASSISTANT_PHRASES_TBR))) ]_vars

\* C23 witness: the normalizer ran on a text with two occurrences of a filler
C23_Witness ==
    /\ filtered_voice # <<>>
    /\ \E n \in 1..Len(ASSISTANT_PHRASES_TBR) :
         LET p == ASSISTANT_PHRASES_TBR[n]
         IN  \E i, j \in 1..Len(voice) :
                /\ i + Len(p) <= j
                /\ occurs_at(to_lowercase(voice), p, i)
                /\ occurs_at(to_lowercase(voice), p, j)

\* C24: a text made of a filler, a command text that contains no filler, and
\* another filler, in any letter case, is normalized to the command text.
C24_FillersAroundCommandRemoved ==
    filtered_voice # <<>>
    => \A n1, n2 \in 1..Len(ASSISTANT_PHRASES_TBR) :
         LET lower == to_lowercase(voice)
             before == ASSISTANT_PHRASES_TBR[n1] \o <<" ">>
             after == <<" ">> \o ASSISTANT_PHRASES_TBR[n2]
             c == SubSeq(lower, Len(before) + 1, Len(lower) - Len(after))
         IN  ( /\ Len(lower) > Len(before) + Len(after)
               /\ occurs_at(lower, before, 1)
               /\ occurs_at(lower, after, Len(lower) - Len(after) + 1)
               /\ trim(c) = c
               /\ \A n \in 1..Len(ASSISTANT_PHRASES_TBR) :
                     ~contains(c, ASSISTANT_PHRASES_TBR[n]) )
             => filtered_voice[1] = c

\* the words are filler phrases of the list, one after the other
RECURSIVE made_of_fillers(_)
made_of_fillers(words) ==
    \/ words = <<>>
    \/ \E n \in 1..Len(ASSISTANT_PHRASES_TBR) :
         LET phrase == split_whitespace(ASSISTANT_PHRASES_TBR[n])
         IN  /\ Len(phrase) <= Len(words)
             /\ SubSeq(words, 1, Len(phrase)) = phrase
             /\ made_of_fillers(SubSeq(words, Len(phrase) + 1, Len(words)))

\* C25: a text that is one non-filler word with filler phrases of the list
\* before and after it is normalized to exactly that word.
C25_FillersAroundWordRemoved ==
    filtered_voice # <<>>
    => LET words == split_whitespace(to_lowercase(voice))
       IN  \A k \in 2..(Len(words) - 1) :
              ( /\ \A n \in 1..Len(ASSISTANT_PHRASES_TBR) :
                      ~contains(words[k], ASSISTANT_PHRASES_TBR[n])
                /\ made_of_fillers(SubSeq(words, 1, k - 1))
                /\ made_of_fillers(SubSeq(words, k + 1, Len(words))) )
              => filtered_voice[1] = words[k]

----------------------------------------------------------------------------
(* Properties of the command lookup *)

\* the highest ratio of the text with a trigger phrase of the entry
entry_ratio(text, entry) ==
    CHOOSE r \in 0..100 :
        /\ \E k \in 1..Len(entry.phrases) : token_ratio(text, entry.phrases[k]) = r
        /\ \A k \in 1..Len(entry.phrases) : token_ratio(text, entry.phrases[k]) <= r

\* the entry has a trigger phrase whose ratio with the text reaches the
\* entry's own threshold, or 65 when it has none
qualifies(text, entry) ==
    \E k \in 1..Len(entry.phrases) :
        token_ratio(text, entry.phrases[k])
          >= (IF entry.threshold = {} THEN 65 ELSE CHOOSE x \in entry.threshold : TRUE)

\* C26: the lookup returns the first entry of the table that qualifies for
\* the normalized text, whatever the ratios of the entries after it, and
\* nothing when no entry qualifies.
C26_FirstQualifyingEntryReturned ==
    fetched # -1
    => LET text == filtered_voice[1]
           qualifying == { i \in 1..Len(COMMANDS_LIST) : qualifies(text, COMMANDS_LIST[i]) }
       IN  IF qualifying = {} THEN fetched = 0
           ELSE /\ fetched \in qualifying
                /\ \A i \in qualifying : fetched <= i

\* C26 witness: the first entry was returned although the second one
\* qualifies too, with a higher ratio
C26_Witness ==
    /\ fetched = 1
    /\ qualifies(filtered_voice[1], COMMANDS_LIST[2])
    /\ entry_ratio(filtered_voice[1], COMMANDS_LIST[2])
         > entry_ratio(filtered_voice[1], COMMANDS_LIST[1])

----------------------------------------------------------------------------
(* Properties of the device monitor *)

\* how many events of the kind about the id the sequence holds
event_count(events, kind, id) ==
    Cardinality({ n \in 1..Len(events) : events[n].kind = kind /\ events[n].id = id })

\* C28: a scan that got the current devices sent every registered callback
\* one DeviceAdded for each id only in the current set, one DeviceRemoved for
\* each id only in the snapshot, one DeviceChanged for each id in both with
\* different attributes and nothing else, and the snapshot is the current set.
C28_ScanNotifiesDifferences ==
    lastScan.outcome = "ok"
    => LET old == lastScan.previous
           new == lastScan.current
           expected(id) ==
               IF id \in DOMAIN new \ DOMAIN old THEN { "DeviceAdded" }
               ELSE IF id \in DOMAIN old \ DOMAIN new THEN { "DeviceRemoved" }
               ELSE IF id \in DOMAIN old /\ old[id] # new[id] THEN { "DeviceChanged" }
               ELSE {}
       IN  /\ devices = new
           /\ DOMAIN lastScan.notified = 1..callbacks
           /\ \A cb \in 1..callbacks, id \in DeviceIds :
                \A kind \in { "DeviceAdded", "DeviceRemoved", "DeviceChanged" } :
                    event_count(lastScan.notified[cb], kind, id)
                      = IF kind \in expected(id) THEN 1 ELSE 0

\* C28 witness: a scan with two callbacks registered met an added, a changed
\* or removed, device
C28_Witness ==
    /\ lastScan.outcome = "ok"
    /\ callbacks = 2
    /\ \E id \in DOMAIN lastScan.current : id \notin DOMAIN lastScan.previous
    /\ \E id \in DOMAIN lastScan.previous :
         \/ id \notin DOMAIN lastScan.current
         \/ lastScan.previous[id] # lastScan.current[id]

----------------------------------------------------------------------------
(* Properties of speech *)

\* C29: a speak call made while an utterance of another thread is active
\* never gets to speak: it is dropped, not queued.
C29_ConcurrentSpeakIsDropped ==
    \A t \in Clients : pc[t] = "sp_speak" => t \notin overlapped

----------------------------------------------------------------------------
(* Properties of shutdown *)

\* C30: once should_shutdown() returns true, which it does from
\* request_shutdown() on, it returns true in every later state.
C30_ShutdownFlagStays ==
    [][ ( should_shutdown \/ request_shutdown ) => should_shutdown' ]_vars

\* C30 witness: shutdown was requested while the loop ran, time passed, and
\* the loop saw the flag at its next check and ended
C30_Witness ==
    /\ should_shutdown
    /\ now > 0
    /\ readsAfterShutdown = 0
    /\ pc[AppThread] = "ml_done"

----------------------------------------------------------------------------
(* Properties of the listening flag and of the UI events *)

\* C31: is_listening() is true only while a worker is in its loop or in the
\* stop_recording that ends it; once the worker has returned, however its
\* loop ended, it is false.
C31_ListeningReflectsWorker ==
    LISTENING => \E t \in Starters : pc[t] \in LoopPcs \cup StopRecordingPcs

----------------------------------------------------------------------------
(* Properties of the recorder under concurrent calls *)

\* C32: pvrecorder's start is only called on a stopped device and its stop
\* only on a started one, so that device starts and stops alternate; and
\* when every call has returned is_recording() is the device's state.
C32_DeviceCallsAlternate ==
    [][ /\ \A t \in Clients :
             /\ (pc[t] = "rst_dev" /\ pc'[t] # "rst_dev") => ~micRecording
             /\ (pc[t] \in { "rs_dev", "sd_dev" } /\ pc'[t] # pc[t]) => micRecording
        /\ (\A t \in Clients : pc'[t] \in Returned) => IS_RECORDING' = micRecording' ]_vars

\* C33: is_recording() implies is_initialized().
C33_RecordingImpliesInitialized ==
    IS_RECORDING => IS_INITIALIZED

\* C34: an init() called with the recorder not initialized, after an init()
\* that failed or after a shutdown(), whose device setup succeeds returns
\* success and leaves the recorder initialized: it fails only where the
\* microphone cannot be set up (no other call is in progress).
C34_InitCanBeRetried ==
    [][ \A t \in Clients :
          ( /\ pc[t] \in { "ri_type", "ri_mic" }
            /\ pc'[t] = "ret_err"
            /\ \A u \in Clients \ { t } : pc[u] \in Returned )
          => pc[t] = "ri_mic" /\ ~FRAME_LENGTH ]_vars

----------------------------------------------------------------------------
(* Properties of the UI events *)

\* C35: a "greet" event is only emitted when the one before it has been
\* followed by a "waiting" event, and a worker that leaves AwaitingCommand,
\* whichever way, leaves the UI with the "waiting" event emitted.
C35_GreetIsFollowedByWaiting ==
    [][ \A t \in Starters :
          /\ (pc[t] = "kw_cb" /\ pc'[t] = "vc_check") => ~greeted
          /\ (pc[t] \in SessionPcs /\ pc'[t] \notin SessionPcs) => ~greeted' ]_vars

----------------------------------------------------------------------------
(* Properties of the monitor's polling thread *)

\* C36: after any sequence of start() and stop() calls, stop() immediately
\* followed by start() included, at most one polling thread of the monitor is
\* alive.
C36_AtMostOnePollingThread == pollers <= 1

\* C37: whenever is_running is true after start() has returned, a polling
\* thread of the monitor exists; a start() whose initial scan failed leaves
\* is_running false.
C37_RunningHasPollingThread == is_running => pollers > 0

\* C38: a periodic scan always completes and releases the monitor's mutexes,
\* also when a registered callback calls get_devices, get_device or
\* add_callback: no scan is left inside a callback with a mutex held or
\* poisoned.
C38_ScanReleasesLocks == \A m \in DOMAIN locks : locks[m] = "free"

----------------------------------------------------------------------------
(* db/db.rs: the settings, and main.rs perform_graceful_shutdown *)

\* the Settings values told apart: 0 is the default
MaxSettings == 1

\* the threads that use the settings
DbThreads == { AppThread } \cup Clients

\* init_settings: the file is loaded, or the default settings are written by
\* save_settings with the cell still unset, and then the cell is set
init_settings ==
    /\ CURRENT_SETTINGS = <<>>
    /\ \A t \in DbThreads : pc[t] = "idle"
    /\ \E io_ok \in BOOLEAN :
         IF io_ok
         THEN /\ settings_file' = (IF settings_file = <<>> THEN << 0 >> ELSE settings_file)
              /\ CURRENT_SETTINGS' = settings_file'
         ELSE UNCHANGED << CURRENT_SETTINGS, settings_file >>
    /\ UNCHANGED << pc, flagVars, cellVars, recVars, sessVars, appVars, engine, lastInit,
                    lastRead, readsAfterShutdown, textVars, ttsVars, monVars, greeted,
                    settings_lock >>

\* update_settings: CURRENT_SETTINGS.get(), then global_settings.lock(), whose
\* guard lives until update_settings returns; the updater changes the
\* settings in place
update_settings(t) ==
    /\ t \in Clients
    /\ pc[t] \in Returned
    /\ IF CURRENT_SETTINGS = <<>> \/ settings_lock = "poisoned"
       THEN Goto(t, "ret_err") /\ UNCHANGED dbVars
       ELSE /\ settings_lock = "free"
            /\ settings_lock' = t
            /\ CURRENT_SETTINGS' \in { << v >> : v \in 0..MaxSettings }
            /\ Goto(t, "ss_write")
            /\ UNCHANGED settings_file
    /\ UNCHANGED << flagVars, cellVars, recVars, sessVars, appVars, engine, lastInit,
                    lastRead, readsAfterShutdown, textVars, ttsVars, monVars, greeted >>

\* perform_graceful_shutdown, phases 1 and 2: recorder::stop_recording when
\* is_recording(), then recorder::shutdown and audio::shutdown, whose errors
\* are only logged
perform_graceful_shutdown ==
    /\ pc[AppThread] = "idle"
    /\ \E dev_ok \in BOOLEAN :
         LET stops == IS_RECORDING /\ IS_INITIALIZED /\ dev_ok
         IN  /\ micRecording' = (IF stops THEN FALSE ELSE micRecording)
             /\ IS_RECORDING' = (IF stops THEN FALSE ELSE IS_RECORDING)
             /\ IS_INITIALIZED' = (IF IS_RECORDING /\ ~stops THEN IS_INITIALIZED ELSE FALSE)
    /\ Goto(AppThread, "st_get")
    /\ UNCHANGED << flagVars, cellVars, RECORDER_TYPE, FRAME_LENGTH, sessVars, appVars,
                    callVars >>

\* save_state, phase 3 of the shutdown: CURRENT_SETTINGS.get(), then
\* global_settings.lock(), whose guard lives until save_state returns
save_state ==
    /\ pc[AppThread] = "st_get"
    /\ IF CURRENT_SETTINGS = <<>> \/ settings_lock = "poisoned"
       THEN Goto(AppThread, "gs_tray") /\ UNCHANGED dbVars
       ELSE /\ settings_lock = "free"
            /\ settings_lock' = AppThread
            /\ Goto(AppThread, "ss_write")
            /\ UNCHANGED << CURRENT_SETTINGS, settings_file >>
    /\ UNCHANGED << flagVars, cellVars, recVars, sessVars, appVars, engine, lastInit,
                    lastRead, readsAfterShutdown, textVars, ttsVars, monVars, greeted >>

\* where the caller of save_settings goes when save_settings has returned:
\* both callers leave through `?` on an error and drop their guard
save_settings_returns(t, ok) ==
    IF t = AppThread THEN (IF ok THEN "st_backup" ELSE "gs_tray")
    ELSE (IF ok THEN "ret_ok" ELSE "ret_err")

\* save_settings, the file: the settings are written to a temporary file that
\* is renamed over the settings file; an I/O error is returned
save_settings_write(t) ==
    /\ pc[t] = "ss_write"
    /\ \E io_ok \in BOOLEAN :
         IF io_ok
         THEN /\ settings_file' = CURRENT_SETTINGS
              /\ Goto(t, "ss_lock")
              /\ UNCHANGED << CURRENT_SETTINGS, settings_lock >>
         ELSE /\ settings_lock' = (IF settings_lock = t THEN "free" ELSE settings_lock)
              /\ Goto(t, save_settings_returns(t, FALSE))
              /\ UNCHANGED << CURRENT_SETTINGS, settings_file >>
    /\ UNCHANGED << flagVars, cellVars, recVars, sessVars, appVars, engine, lastInit,
                    lastRead, readsAfterShutdown, textVars, ttsVars, monVars, greeted >>

\* save_settings, the cell: global_settings.lock() and `*global = settings`.
\* Locking a std::sync::Mutex that the thread itself holds never returns: the
\* thread deadlocks, or panics and poisons the mutex
save_settings(t) ==
    /\ pc[t] = "ss_lock"
    /\ IF settings_lock = t
       THEN \E end \in { "deadlocked", "panicked" } :
              /\ Goto(t, end)
              /\ settings_lock' = (IF end = "panicked" THEN "poisoned" ELSE t)
              /\ UNCHANGED << CURRENT_SETTINGS, settings_file >>
       ELSE /\ settings_lock \in { "free", "poisoned" }
            /\ CURRENT_SETTINGS' = (IF settings_lock = "free" THEN settings_file
                                    ELSE CURRENT_SETTINGS)
            /\ Goto(t, save_settings_returns(t, TRUE))
            /\ UNCHANGED << settings_lock, settings_file >>
    /\ UNCHANGED << flagVars, cellVars, recVars, sessVars, appVars, engine, lastInit,
                    lastRead, readsAfterShutdown, textVars, ttsVars, monVars, greeted >>

\* save_state after save_settings: create_backup_copy, the guard is dropped,
\* and then phase 4 of the shutdown, tray::shutdown
save_state_backup ==
    /\ \/ /\ pc[AppThread] = "st_backup"
          /\ settings_lock' = "free"
          /\ Goto(AppThread, "gs_tray")
       \/ /\ pc[AppThread] = "gs_tray"
          /\ Goto(AppThread, "ret_ok")
          /\ UNCHANGED settings_lock
    /\ UNCHANGED << flagVars, cellVars, recVars, sessVars, appVars, engine, lastInit,
                    lastRead, readsAfterShutdown, textVars, ttsVars, monVars, greeted,
                    CURRENT_SETTINGS, settings_file >>

NextDb ==
    \/ init_settings
    \/ perform_graceful_shutdown
    \/ save_state
    \/ save_state_backup
    \/ \E t \in DbThreads : update_settings(t) \/ save_settings_write(t) \/ save_settings(t)

SpecDb == InitRecorder /\ [][NextDb]_vars

\* C39: once the settings are initialized, save_state and update_settings
\* terminate: save_settings never locks the settings mutex on a thread that
\* already holds it, so the shutdown gets past phase 3.
C39_SaveNeverLocksHeldMutex ==
    \A t \in DbThreads : ~(pc[t] = "ss_lock" /\ settings_lock = t)

----------------------------------------------------------------------------
(* listener.rs: vosk_callback on its own *)

\* the most words of a partial transcription
MaxWords == 4

\* the partial transcriptions: up to MaxWords words, with and without the wake
\* phrase, single spaces between them or blanks around them, and two of ten
\* words at the ratio of VOSK_MIN_RATIO and just below it
VoskInputs ==
    LET Words == { <<"d","j","a","r","v","i","s">>, <<"D","j","a","r","v","i","s","a">>,
                   <<"s","h","r">> }
        RECURSIVE joined(_)
        joined(ws) == IF Len(ws) = 1 THEN ws[1]
                      ELSE ws[1] \o <<" ">> \o joined(Tail(ws))
        texts == { joined(ws) : ws \in UNION { [1..n -> Words] : n \in 1..MaxWords } }
        wake == <<"d","j","a","r","v","i","s">>
        other == <<"d","a">>
        ten(n) == joined([i \in 1..10 |-> IF i <= n THEN wake ELSE other])
    IN  { [kind |-> "err"], [kind |-> "none"] }
          \cup { [kind |-> "some", text |-> t] :
                   t \in texts \cup { <<" ">> \o u \o <<" ", " ">> : u \in texts }
                          \cup { <<>>, <<" ">>, <<" ", " ">>, ten(7), ten(6) } }

\* vosk_callback: vosk::recognize(frame, true), None taken as "", and the
\* detection decided on the words of the text
vosk_callback ==
    /\ \E r \in VoskInputs :
         /\ voice' = (IF r.kind = "some" THEN r.text ELSE <<>>)
         /\ detection' = vosk_callback_result(r)
    /\ UNCHANGED << pc, progVars, filtered_voice, fetched, COMMANDS_LIST, ttsVars, monVars >>

SpecVosk == InitRecorder /\ [][vosk_callback]_vars

\* the words of a text: the maximal runs of characters that are not whitespace
word_runs(s) ==
    { run \in (1..Len(s)) \X (1..Len(s)) :
        /\ run[1] <= run[2]
        /\ \A i \in run[1]..run[2] : ~is_whitespace(s[i])
        /\ run[1] = 1 \/ is_whitespace(s[run[1] - 1])
        /\ run[2] = Len(s) \/ is_whitespace(s[run[2] + 1]) }

\* the words that have the wake phrase in them once lowercased
wake_runs(s) ==
    { run \in word_runs(s) :
        \E i \in run[1]..run[2] :
            /\ i + Len(VOSK_FETCH_PHRASE) - 1 <= run[2]
            /\ \A k \in 1..Len(VOSK_FETCH_PHRASE) :
                 to_lowercase_char(s[i + k - 1]) = VOSK_FETCH_PHRASE[k] }

\* C40: vosk_callback signals a detection for a frame exactly when the partial
\* transcription has a word and at least VOSK_MIN_RATIO percent of its
\* whitespace-separated words contain the wake phrase after lowercasing.
C40_DetectionIffRatioReached ==
    detection # "idle"
    => (detection = "detected"
        <=> /\ word_runs(voice) # {}
            /\ 100 * Cardinality(wake_runs(voice))
                 >= VOSK_MIN_RATIO * Cardinality(word_runs(voice)))

\* C40 witness: a detection on a text of which one word has not the phrase
C40_Witness ==
    /\ detection = "detected"
    /\ wake_runs(voice) # word_runs(voice)

====
